---- MODULE Spec2Model ----
(***************************************************************************)
(* MPIN validator (validator_core.MPINValidator with PatternGenerator,     *)
(* DateComponentExtractor and SpecialPatternDetector).                     *)
(*                                                                         *)
(* A Python str is a sequence of characters; a character is one of the     *)
(* names below.  "sup2" stands for U+00B2 (superscript two), a character   *)
(* for which str.isdigit() is true although it is no decimal digit and is  *)
(* not matched by the \d of the date parser's regular expression.  "x"     *)
(* stands for any letter.                                                  *)
(***************************************************************************)
EXTENDS Integers, Sequences, FiniteSets, Bags, TLC

VARIABLES
    pin_length,        \* MPINValidator.pin_length (= PatternGenerator.pin_length)
    max_combinations,  \* PatternGenerator.max_combinations of this validator
    op,                \* "idle", or the call whose outcome the caller holds
    call,              \* arguments and outcome of the last validate_pin call
    gen,               \* arguments and outcome of the last generate_all_combinations call
    ext                \* argument and outcome of the last extract_date_components call

vars == <<pin_length, max_combinations, op, call, gen, ext>>

-----------------------------------------------------------------------------
(* Characters and the string primitives the code uses.                     *)

DigitChars == <<"0", "1", "2", "3", "4", "5", "6", "7", "8", "9">>

AsciiDigits == {DigitChars[i] : i \in 1..10}

\* str.isdigit() on one character: decimal digits and the other Unicode digits.
CharIsDigit(c) == c \in AsciiDigits \cup {"sup2"}

\* str.isdigit(): non-empty and every character a digit.
isdigit(s) == Len(s) > 0 /\ \A i \in 1..Len(s) : CharIsDigit(s[i])

\* int() of one decimal digit character.
DigitValue(c) == CHOOSE d \in 0..9 : DigitChars[d + 1] = c

\* f"{n:02d}" for 0 <= n <= 99.
Pad2(n) == <<DigitChars[(n \div 10) + 1], DigitChars[(n % 10) + 1]>>

\* f"{n}" for n >= 0: the decimal numeral without padding.
RECURSIVE Decimal(_)
Decimal(n) == IF n < 10 THEN <<DigitChars[n + 1]>>
              ELSE Decimal(n \div 10) \o <<DigitChars[(n % 10) + 1]>>

\* A Python list or dict is a value: List and Dict evaluate a sequence or a
\* function once, where it is built, instead of at each use.
\* CHOOSE r \in {e : x \in {v}} : TRUE is e with x standing for the value of
\* v, which is computed once however often e uses it.

\* max(ns), 0 for no numbers
Max(ns) == IF ns = {} THEN 0 ELSE CHOOSE n \in ns : \A m \in ns : m <= n

List(s) == s \o <<>>

Dict(f) == f @@ <<>>

\* s[::-1]
Reverse(s) == List([i \in 1..Len(s) |-> s[Len(s) + 1 - i]])

\* "".join(parts), and the concatenation of a list of lists: the elements
\* parts[i][j] in the order of i, then j.
Join(parts) ==
    (CHOOSE r1 \in {LET width == Max({Len(p[i]) : i \in 1..Len(p)})
              at    == SelectSeq([k \in 1..(Len(p) * width) |->
                                     <<((k - 1) \div width) + 1, ((k - 1) % width) + 1>>],
                                 LAMBDA ij : ij[2] <= Len(p[ij[1]]))
          IN  List([k \in 1..Len(at) |-> p[at[k][1]][at[k][2]]])
          : p \in {List(parts)}} : TRUE)

\* needle in haystack, for strings
Contains(haystack, needle) ==
    \E i \in 1..(Len(haystack) - Len(needle) + 1) :
        SubSeq(haystack, i, i + Len(needle) - 1) = needle

-----------------------------------------------------------------------------
(* datetime.strptime(date_str, "%Y-%m-%d")                                  *)

\* %Y is \d\d\d\d, %m is 1[0-2]|0[1-9]|[1-9], %d is 3[01]|[12]\d|0[1-9]|[1-9]| [1-9];
\* the whole string must be consumed ("unconverted data remains" otherwise).
IsMonthField(f) ==
    \/ Len(f) = 2 /\ f[1] = "1" /\ f[2] \in {"0", "1", "2"}
    \/ Len(f) = 2 /\ f[1] = "0" /\ f[2] \in AsciiDigits \ {"0"}
    \/ Len(f) = 1 /\ f[1] \in AsciiDigits \ {"0"}

IsDayField(f) ==
    \/ Len(f) = 2 /\ f[1] = "3" /\ f[2] \in {"0", "1"}
    \/ Len(f) = 2 /\ f[1] \in {"1", "2"} /\ f[2] \in AsciiDigits
    \/ Len(f) = 2 /\ f[1] = "0" /\ f[2] \in AsciiDigits \ {"0"}
    \/ Len(f) = 1 /\ f[1] \in AsciiDigits \ {"0"}
    \/ Len(f) = 2 /\ f[1] = " " /\ f[2] \in AsciiDigits \ {"0"}

\* int() of a field of decimal digits, leading blank ignored.
RECURSIVE FieldValue(_)
FieldValue(f) ==
    IF f = <<>> THEN 0
    ELSE IF f[Len(f)] = " " THEN 0
    ELSE 10 * FieldValue(SubSeq(f, 1, Len(f) - 1)) + DigitValue(f[Len(f)])

IsLeap(y) == (y % 4 = 0) /\ ((y % 100 # 0) \/ (y % 400 = 0))

DaysInMonth(y, m) ==
    IF m = 2 THEN (IF IsLeap(y) THEN 29 ELSE 28)
    ELSE IF m \in {4, 6, 9, 11} THEN 30 ELSE 31

\* The positions of the two "-" separators that split s into the three fields,
\* if the regular expression matches the whole of s.
DateSplit(s) ==
    {<<i, j>> \in (1..Len(s)) \X (1..Len(s)) :
        /\ i = 5 /\ j > i + 1 /\ j < Len(s)
        /\ s[i] = "-" /\ s[j] = "-"
        /\ \A k \in 1..4 : s[k] \in AsciiDigits
        /\ IsMonthField(SubSeq(s, i + 1, j - 1))
        /\ IsDayField(SubSeq(s, j + 1, Len(s)))}

\* Variant: the fields are matched but the day is not checked against the
\* month's length.
strptime_NoCalendar(s) ==
    IF DateSplit(s) = {} THEN [ok |-> FALSE, year |-> 0, month |-> 0, day |-> 0]
    ELSE LET ij == CHOOSE p \in DateSplit(s) : TRUE
             y  == FieldValue(SubSeq(s, 1, 4))
             m  == FieldValue(SubSeq(s, ij[1] + 1, ij[2] - 1))
             d  == FieldValue(SubSeq(s, ij[2] + 1, Len(s)))
         IN  IF y >= 1
             THEN [ok |-> TRUE, year |-> y, month |-> m, day |-> d]
             ELSE [ok |-> FALSE, year |-> 0, month |-> 0, day |-> 0]

\* ok = FALSE stands for the ValueError strptime raises.
strptime(s) ==
    IF DateSplit(s) = {} THEN [ok |-> FALSE, year |-> 0, month |-> 0, day |-> 0]
    ELSE LET ij == CHOOSE p \in DateSplit(s) : TRUE
             y  == FieldValue(SubSeq(s, 1, 4))
             m  == FieldValue(SubSeq(s, ij[1] + 1, ij[2] - 1))
             d  == FieldValue(SubSeq(s, ij[2] + 1, Len(s)))
         IN  IF y >= 1 /\ d <= DaysInMonth(y, m)
             THEN [ok |-> TRUE, year |-> y, month |-> m, day |-> d]
             ELSE [ok |-> FALSE, year |-> 0, month |-> 0, day |-> 0]

-----------------------------------------------------------------------------
(* DateComponentExtractor                                                  *)

\* The keys of the components dict, in insertion order.
ComponentOrder ==
    <<"D", "D_nz", "M", "M_nz", "YY", "YYYY", "YY_1", "YY_2",
      "D_rev", "M_rev", "YY_rev", "YYYY_rev",
      "D_1", "D_2", "M_1", "M_2", "Y_1", "Y_2", "Y_3", "Y_4",
      "FULL_REV", "DD", "MD", "DM", "YMD", "MDY", "YYDD", "DDAY", "RAW_DATE">>

ComponentNames == {ComponentOrder[i] : i \in 1..Len(ComponentOrder)}

\* The empty dict {}.
NoComponents == [n \in {} |-> <<>>]

\* The dict literal of extract_date_components for a parsed date.
ComponentDict(date_str, day, month, year) ==
    LET dd   == Pad2(day)
        mm   == Pad2(month)
        yy   == Pad2(year % 100)
        yyyy == Decimal(year)
    IN  [D        |-> dd,
         D_nz     |-> Decimal(day),
         M        |-> mm,
         M_nz     |-> Decimal(month),
         YY       |-> yy,
         YYYY     |-> yyyy,
         YY_1     |-> Pad2(year \div 100),
         YY_2     |-> yy,
         D_rev    |-> Reverse(dd),
         M_rev    |-> Reverse(mm),
         YY_rev   |-> Reverse(yy),
         YYYY_rev |-> Reverse(yyyy),
         D_1      |-> <<dd[1]>>,
         D_2      |-> <<dd[2]>>,
         M_1      |-> <<mm[1]>>,
         M_2      |-> <<mm[2]>>,
         Y_1      |-> <<yyyy[1]>>,
         Y_2      |-> <<yyyy[2]>>,
         Y_3      |-> <<yyyy[3]>>,
         Y_4      |-> <<yyyy[4]>>,
         FULL_REV |-> Reverse(yyyy \o mm \o dd),
         DD       |-> dd \o dd,
         MD       |-> mm \o dd,
         DM       |-> dd \o mm,
         YMD      |-> yy \o mm \o dd,
         MDY      |-> mm \o dd \o yy,
         YYDD     |-> yy \o dd,
         DDAY     |-> dd \o yy,
         RAW_DATE |-> date_str]

\* extract_date_components(date_str).  raised = "IndexError" when one of
\* f"{year}"[1], [2], [3] indexes past the end of the unpadded year numeral.
extract_date_components(date_str) ==
    IF Len(date_str) = 0 THEN [raised |-> "none", components |-> NoComponents]
    ELSE (CHOOSE r2 \in {
             IF ~date_obj.ok THEN [raised |-> "none", components |-> NoComponents]
             ELSE IF \E k \in 1..4 : k > Len(Decimal(date_obj.year))
             THEN [raised |-> "IndexError", components |-> NoComponents]
             ELSE [raised |-> "none",
                   components |-> ComponentDict(date_str, date_obj.day,
                                                date_obj.month, date_obj.year)]
             : date_obj \in {strptime(date_str)}} : TRUE)

\* components.items() values, in dict order.
ComponentValues(components) ==
    IF DOMAIN components = {} THEN <<>>
    ELSE List([i \in 1..Len(ComponentOrder) |-> components[ComponentOrder[i]]])

\* Variant: only the window at offset 0.
Windows_First(value, length) ==
    IF Len(value) < length THEN <<>> ELSE <<SubSeq(value, 1, length)>>

\* [value[i:i + length] for i in range(len(value) - length + 1)]
Windows(value, length) ==
    (CHOOSE r3 \in {List([i \in 1..(Len(v) - length + 1) |-> SubSeq(v, i, i + length - 1)])
          : v \in {value}} : TRUE)

\* extract_components_by_length(components, length): the values of exactly
\* that length, then every window of every longer value, in dict order.
extract_components_by_length(components, length) ==
    (CHOOSE r4 \in {LET exact  == SelectSeq(values, LAMBDA v : Len(v) = length)
          IN  (CHOOSE r5 \in {exact \o Join([i \in 1..Len(longer) |-> Windows(longer[i], length)])
                    : longer \in {SelectSeq(values, LAMBDA v : Len(v) > length)}} : TRUE)
          : values \in {ComponentValues(components)}} : TRUE)

\* Variant: the 6-digit templates also hold reversed year + day + reversed
\* month and reversed day + month + reversed year.
pattern_templates_Reversed(length) ==
    IF length = 4
    THEN << <<"D", "M">>, <<"M", "D">>, <<"YY", "M">>, <<"M", "YY">>,
            <<"YY", "D">>, <<"D", "YY">>, <<"YY_1", "YY_2">>, <<"D", "D">>,
            <<"M", "M">>, <<"D_rev", "M_rev">>, <<"YY_rev", "D_rev">>, <<"YY">> >>
    ELSE << <<"D", "M", "YY">>, <<"M", "D", "YY">>, <<"YY", "M", "D">>,
            <<"D", "YY", "M">>, <<"M", "YY", "D">>, <<"YY", "D", "M">>,
            <<"YYYY", "D">>, <<"YYYY", "M">>, <<"D", "D", "D">>, <<"M", "M", "M">>,
            <<"D", "M", "D">>, <<"M", "D", "M">>, <<"YMD">>, <<"MDY">>,
            <<"DD", "YY">>, <<"YY", "DD">>, <<"FULL_REV">>,
            <<"YY_rev", "D", "M_rev">>, <<"D_rev", "M", "YY_rev">> >>

\* The pattern templates of extract_date_patterns, per PIN length.
pattern_templates(length) ==
    IF length = 4
    THEN << <<"D", "M">>, <<"M", "D">>, <<"YY", "M">>, <<"M", "YY">>,
            <<"YY", "D">>, <<"D", "YY">>, <<"YY_1", "YY_2">>, <<"D", "D">>,
            <<"M", "M">>, <<"D_rev", "M_rev">>, <<"YY_rev", "D_rev">>, <<"YY">> >>
    ELSE << <<"D", "M", "YY">>, <<"M", "D", "YY">>, <<"YY", "M", "D">>,
            <<"D", "YY", "M">>, <<"M", "YY", "D">>, <<"YY", "D", "M">>,
            <<"YYYY", "D">>, <<"YYYY", "M">>, <<"D", "D", "D">>, <<"M", "M", "M">>,
            <<"D", "M", "D">>, <<"M", "D", "M">>, <<"YMD">>, <<"MDY">>,
            <<"DD", "YY">>, <<"YY", "DD">>, <<"FULL_REV">> >>

\* Variant: the reversal is left out.
TemplatePatterns_Forward(components, template, length) ==
    LET pattern == Join([i \in 1..Len(template) |-> components[template[i]]])
    IN  IF Len(pattern) # length THEN {} ELSE {pattern}

\* The patterns one template contributes: the concatenation if it has the PIN
\* length, and its reversal unless the template names FULL_REV.
TemplatePatterns(components, template, length) ==
    LET pattern == Join([i \in 1..Len(template) |-> components[template[i]]])
    IN  IF Len(pattern) # length THEN {}
        ELSE IF \E i \in 1..Len(template) : template[i] = "FULL_REV"
        THEN {pattern}
        ELSE {pattern, Reverse(pattern)}

\* extract_date_patterns(date_str, pin_length), as the set it is used as.
extract_date_patterns(date_str, length) ==
    (CHOOSE r6 \in {
    LET components == ex.components
        templates  == pattern_templates(length)
        day        == components["D"]
        month      == components["M"]
    IN  IF ex.raised # "none" THEN [raised |-> ex.raised, patterns |-> {}]
        ELSE IF DOMAIN components = {} THEN [raised |-> "none", patterns |-> {}]
        ELSE [raised |-> "none",
              patterns |->
                UNION {TemplatePatterns(components, templates[i], length) :
                          i \in 1..Len(templates)}
                \cup (IF length = 4 /\ Len(day) = 2 THEN {day \o day} ELSE {})
                \cup (IF length = 6 /\ Len(day) = 2 THEN {day \o day \o day} ELSE {})
                \cup (IF length = 6 /\ Len(month) = 2 /\ Len(day) = 2
                      THEN {month \o day \o month, day \o month \o day} ELSE {})]
    : ex \in {extract_date_components(date_str)}} : TRUE)

-----------------------------------------------------------------------------
(* Demographics, reason codes, the wall clock                              *)

\* The keys of source_reason_map, in dict order.
SourceOrder == <<"dob", "spouse_dob", "anniversary">>

SourceKeys == {SourceOrder[i] : i \in 1..Len(SourceOrder)}

source_reason_map(source) ==
    CASE source = "dob"         -> "DEMOGRAPHIC_DOB_SELF"
      [] source = "spouse_dob"  -> "DEMOGRAPHIC_DOB_SPOUSE"
      [] source = "anniversary" -> "DEMOGRAPHIC_ANNIVERSARY"

\* A demographics argument is None or a dict from some of the source keys to
\* strings: [none |-> BOOLEAN, map |-> the dict].  demographics.get(source)
\* is truthy when the key is present with a non-empty string.
Truthy(demographics, source) ==
    /\ ~demographics.none
    /\ source \in DOMAIN demographics.map
    /\ Len(demographics.map[source]) > 0

\* "not demographics": None or the empty dict.
NotDemographics(demographics) ==
    demographics.none \/ DOMAIN demographics.map = {}

\* What the time.time() samples of one call show: every sample up to and
\* including the after-th one reads an elapsed time <= max_execution_time and,
\* if the clock expires, every later one reads more (time does not run
\* backwards).  tick is the number of the sample, counted from 1.
TimeOk(clock, tick) == ~clock.expires \/ tick <= clock.after

Min(a, b) == IF a <= b THEN a ELSE b

-----------------------------------------------------------------------------
(* PatternGenerator                                                        *)

\* Lines 47-56: the sources with a truthy value and a non-empty component
\* dict, in source_reason_map order; an IndexError of the extractor propagates.
SourceComponents(demographics) ==
    (CHOOSE r7 \in {
    LET raises  == \E i \in 1..Len(present) : ex[present[i]].raised # "none"
        keys    == SelectSeq(present, LAMBDA s : DOMAIN ex[s].components # {})
    IN  IF raises THEN [raised |-> "IndexError", keys |-> <<>>, components |-> <<>>]
        ELSE [raised |-> "none", keys |-> keys,
              components |->
                  Dict([s \in {keys[i] : i \in 1..Len(keys)} |-> ex[s].components])]
    : present \in {SelectSeq(SourceOrder, LAMBDA s : Truthy(demographics, s))},
      ex \in {Dict([s \in {k \in SourceKeys : Truthy(demographics, k)} |->
                       extract_date_components(demographics.map[s])])}} : TRUE)

\* sum(ns) of a list of naturals: the size of the bag with ns[i] copies of
\* each position i.
Sum(ns) == BagCardinality([i \in {j \in 1..Len(ns) : ns[j] > 0} |-> ns[i]])

RECURSIVE Product(_)
Product(ns) == IF ns = <<>> THEN 1 ELSE Head(ns) * Product(Tail(ns))

\* The t-th element (from 0) of itertools.product(*lists), as the tuple of
\* its parts: the last position varies fastest.
ProductAt(lists, t) ==
    List([i \in 1..Len(lists) |->
            lists[i][((t \div Product([j \in 1..(Len(lists) - i) |-> Len(lists[i + j])]))
                      % Len(lists[i])) + 1]])

\* "".join(str_parts) for the first n elements of product(*lists).  When the
\* loop runs to the end (n is the size of the product) every element of the
\* product is visited, so the strings are the concatenations of one value per
\* list; a shorter prefix is enumerated element by element.
RECURSIVE Concatenations(_)
Concatenations(lists) ==
    IF lists = <<>> THEN {<<>>}
    ELSE {a \o b : a \in {Head(lists)[i] : i \in 1..Len(Head(lists))},
                   b \in Concatenations(Tail(lists))}

JoinedPrefix(lists, n) ==
    IF n = Product([i \in 1..Len(lists) |-> Len(lists[i])])
    THEN Concatenations(lists)
    ELSE {Join(ProductAt(lists, t)) : t \in 0..(n - 1)}

\* Variant: every list is cut to its first 20 entries whatever the size of
\* the product.
LimitSets_Always(component_sets) ==
    List([i \in 1..Len(component_sets) |->
            SubSeq(component_sets[i], 1, Min(20, Len(component_sets[i])))])

\* The safety valve of _generate_pins_from_components (lines 169-177).
LimitSets(component_sets) ==
    IF Product([i \in 1..Len(component_sets) |-> Len(component_sets[i])]) > 5000
    THEN List([i \in 1..Len(component_sets) |->
                 SubSeq(component_sets[i], 1, Min(20, Len(component_sets[i])))])
    ELSE component_sets

\* _generate_pins_from_components, called when `ticks` clock samples were
\* taken before it.  combo_count is the callee's own copy of the caller's
\* integer (0 at every call): it counts the candidates of this call alone.
\* Result: the keys stored, the reasons recorded against each of them, the
\* number of loop iterations run, the clock samples taken, and whether a
\* sample read an expired clock.
_generate_pins_from_components(component_sets, reasons, combo_count, ticks, clock, length, limit) ==
    IF \E i \in 1..Len(component_sets) : component_sets[i] = <<>>
    THEN [keys |-> {}, reasons |-> {}, iterations |-> 0, ticks |-> ticks, timed_out |-> FALSE]
    ELSE (CHOOSE r8 \in {
         LET total   == Product([i \in 1..Len(sets) |-> Len(sets[i])])
             \* the iterations that pass both checks: combo_count + n <= limit
             \* and sample ticks + n in time
             byCount == IF limit - combo_count < 0 THEN 0 ELSE limit - combo_count
             byTime  == IF ~clock.expires THEN total
                        ELSE IF clock.after - ticks < 0 THEN 0 ELSE clock.after - ticks
             stored  == Min(total, Min(byCount, byTime))
             ran     == IF stored < total THEN stored + 1 ELSE total
             pins    == JoinedPrefix(sets, stored)
         IN  [keys       |-> {pin \in pins : Len(pin) = length},
              reasons    |-> {reasons[i] : i \in 1..Len(reasons)},
              iterations |-> ran,
              ticks      |-> ticks + ran,
              timed_out  |-> stored < total /\ ~TimeOk(clock, ticks + stored + 1)]
         : sets \in {LimitSets(component_sets)}} : TRUE)

\* list(product(source_keys, repeat=n))[t], t from 0.
SourceCombination(source_keys, n, t) ==
    ProductAt(List([i \in 1..n |-> source_keys]), t)

\* The body of the loop of _generate_n_digit_combinations for its t-th
\* source combination (lines 127-147), entered when `ticks` clock samples were
\* taken before the check of line 124: the outcome of its call of
\* _generate_pins_from_components.
SweepStep(sc, part_lengths, t, combo_count, ticks, clock, length, limit) ==
    (CHOOSE r9 \in {_generate_pins_from_components(
              component_sets,
              List([i \in 1..Len(part_lengths) |-> source_reason_map(combination[i])]),
              combo_count, ticks + 1, clock, length, limit)
          : combination \in {SourceCombination(sc.keys, Len(part_lengths), t)},
            component_sets \in
                {LET combo == SourceCombination(sc.keys, Len(part_lengths), t)
                 IN  List([i \in 1..Len(part_lengths) |->
                             extract_components_by_length(sc.components[combo[i]],
                                                          part_lengths[i])])}} : TRUE)

\* The passes from..(to - 1) of the loop of _generate_n_digit_combinations
\* over its source combinations.  `done` is what the earlier passes left: the
\* outputs of their calls of _generate_pins_from_components, in order, the
\* clock samples taken, whether one of them read an expired clock, and
\* whether the loop has returned (line 125).  A range of several passes is
\* its first half followed by its second half.
RECURSIVE Sweep(_, _, _, _, _, _, _, _, _)
Sweep(sc, part_lengths, from, to, combo_count, done, clock, length, limit) ==
    IF done.returned \/ from >= to THEN done
    ELSE IF to > from + 1
    THEN (CHOOSE r10 \in {Sweep(sc, part_lengths, (from + to) \div 2, to, combo_count, half,
                     clock, length, limit)
               : half \in {Sweep(sc, part_lengths, from, (from + to) \div 2, combo_count,
                                 done, clock, length, limit)}} : TRUE)
    ELSE IF ~TimeOk(clock, done.ticks + 1) \/ combo_count > limit
    THEN [outputs   |-> done.outputs,
          ticks     |-> done.ticks + 1,
          timed_out |-> done.timed_out \/ ~TimeOk(clock, done.ticks + 1),
          returned  |-> TRUE]
    ELSE (CHOOSE r11 \in {[outputs   |-> Append(done.outputs, out),
                ticks     |-> out.ticks,
                timed_out |-> done.timed_out \/ out.timed_out,
                returned  |-> FALSE]
               : out \in {SweepStep(sc, part_lengths, from, combo_count, done.ticks,
                                    clock, length, limit)}} : TRUE)

\* _generate_n_digit_combinations(source_components, part_lengths, pin_reasons,
\* combo_count, start_time), called when `ticks` clock samples were taken.
_generate_n_digit_combinations(sc, part_lengths, combo_count, ticks, clock, length, limit) ==
    IF Sum(part_lengths) # length
    THEN [outputs |-> <<>>, ticks |-> ticks, timed_out |-> FALSE, returned |-> TRUE]
    ELSE Sweep(sc, part_lengths, 0,
               Product([i \in 1..Len(part_lengths) |-> Len(sc.keys)]), combo_count,
               [outputs |-> <<>>, ticks |-> ticks, timed_out |-> FALSE, returned |-> FALSE],
               clock, length, limit)

\* The special-pattern generators append to pin_reasons[pin] without a
\* membership test.  Each is modelled by the appends it makes, in order: a
\* sequence of <<pin, reason>>.
Append1(pin, r1) == << <<pin, r1>> >>

Append2(pin, r1, r2) == << <<pin, r1>>, <<pin, r2>> >>

Append3(pin, r1, r2, r3) == << <<pin, r1>>, <<pin, r2>>, <<pin, r3>> >>

\* for i, source1 in enumerate(source_keys): for j, source2 in
\* enumerate(source_keys[i+1:], i+1): the pairs, in loop order.
SourcePairs(source_keys) ==
    Join([i \in 1..Len(source_keys) |->
            [j \in 1..(Len(source_keys) - i) |-> <<source_keys[i], source_keys[i + j]>>]])

\* A guarded block of appends: nothing when the guard or the length test fails.
When(cond, appends) == IF cond THEN appends ELSE <<>>

_generate_special_patterns_4digit(sc, length) ==
    LET c(s) == sc.components[s]
        r(s) == source_reason_map(s)
        repetition(s) ==
            When("D" \in DOMAIN c(s) /\ Len(c(s)["D"]) = 2,
                 Append1(c(s)["D"] \o c(s)["D"], r(s)))
        pair(s1, s2) ==
            LET day1   == c(s1)["D"]
                day2   == c(s2)["D"]
                month1 == c(s1)["M"]
                month2 == c(s2)["M"]
                year1  == c(s1)["YY"]
                year2  == c(s2)["YY"]
                year2p == SubSeq(year2, 1, Min(2, Len(year2)))
            IN  When("D" \in DOMAIN c(s1) /\ "D" \in DOMAIN c(s2),
                     When(Len(day1 \o day2) = length, Append2(day1 \o day2, r(s1), r(s2)))
                     \o When(Len(day2 \o day1) = length, Append2(day2 \o day1, r(s1), r(s2))))
                \o
                When("M" \in DOMAIN c(s1) /\ "M" \in DOMAIN c(s2),
                     When(Len(month1 \o month2) = length,
                          Append2(month1 \o month2, r(s1), r(s2)))
                     \o When(Len(month2 \o month1) = length,
                             Append2(month2 \o month1, r(s1), r(s2))))
                \o
                When("YY" \in DOMAIN c(s1) /\ "YY" \in DOMAIN c(s2),
                     When(Len(year1 \o year2p) = length,
                          Append2(year1 \o year2p, r(s1), r(s2)))
                     \o When(Len(Reverse(year1) \o year2p) = length,
                             Append2(Reverse(year1) \o year2p, r(s1), r(s2)))
                     \o When(r(s1) = "DEMOGRAPHIC_DOB_SELF"
                             /\ Contains(c(s1)["RAW_DATE"], <<"2", "0", "0", "4">>),
                             When(Len(<<"0", "0", "9", "8">>) = length,
                                  Append1(<<"0", "0", "9", "8">>, r(s1)))
                             \o When(Len(<<"9", "8", "0", "4">>) = length,
                                     Append2(<<"9", "8", "0", "4">>, r(s1), r(s2)))))
        pairs == SourcePairs(sc.keys)
    IN  Join([i \in 1..Len(sc.keys) |-> repetition(sc.keys[i])])
        \o Join([i \in 1..Len(pairs) |-> pair(pairs[i][1], pairs[i][2])])

_generate_special_patterns_6digit(sc, length) ==
    LET c(s) == sc.components[s]
        r(s) == source_reason_map(s)
        repetition(s) ==
            When("D" \in DOMAIN c(s) /\ Len(c(s)["D"]) = 2,
                 Append1(c(s)["D"] \o c(s)["D"] \o c(s)["D"], r(s)))
        reversed(s) ==
            When("FULL_REV" \in DOMAIN c(s) /\ Len(c(s)["FULL_REV"]) >= length,
                 Append1(SubSeq(c(s)["FULL_REV"], 1, length), r(s)))
        pair(s1, s2) ==
            LET md1  == c(s1)["MD"]
                md2  == c(s2)["MD"]
                year == c(s1)["YY"]
                day1 == c(s1)["D"]
                day2 == c(s2)["D"]
            IN  When({"M", "D"} \subseteq DOMAIN c(s1) /\ {"M", "D"} \subseteq DOMAIN c(s2)
                     /\ Len(md1) = 4 /\ Len(md2) = 4
                     /\ Len(SubSeq(md1, 1, 2) \o md2) = length,
                     Append2(SubSeq(md1, 1, 2) \o md2, r(s1), r(s2)))
                \o
                When("YY" \in DOMAIN c(s1) /\ "MD" \in DOMAIN c(s2)
                     /\ Len(year) = 2 /\ Len(md2) = 4 /\ Len(year \o md2) = length,
                     Append2(year \o md2, r(s1), r(s2)))
                \o
                When("D" \in DOMAIN c(s1) /\ "D" \in DOMAIN c(s2)
                     /\ Len(day1) = 2 /\ Len(day2) = 2
                     /\ Len(day1 \o day2 \o day1) = length,
                     Append2(day1 \o day2 \o day1, r(s1), r(s2)))
        pairs == SourcePairs(sc.keys)
    IN  Join([i \in 1..Len(sc.keys) |-> repetition(sc.keys[i])])
        \o Join([i \in 1..Len(sc.keys) |-> reversed(sc.keys[i])])
        \o Join([i \in 1..Len(pairs) |-> pair(pairs[i][1], pairs[i][2])])

\* With fewer than three sources nothing is generated; with three, the
\* sources are dob, spouse_dob and anniversary.
_generate_cross_source_patterns(sc, length) ==
    IF Len(sc.keys) < 3 THEN <<>>
    ELSE
    LET dob     == sc.components["dob"]
        spouse  == sc.components["spouse_dob"]
        wedding == sc.components["anniversary"]
        rd      == source_reason_map("dob")
        rs      == source_reason_map("spouse_dob")
        rw      == source_reason_map("anniversary")
        pin1a   == Reverse(spouse["YY"]) \o wedding["D"]
        pin1    == IF Len(pin1a) = 4 /\ length = 6 THEN pin1a \o <<"0", "0">> ELSE pin1a
        pin2    == dob["D"] \o spouse["D"] \o SubSeq(wedding["D"], 1, 2)
        pin3    == dob["M"] \o spouse["M"] \o wedding["M"]
        pin4    == wedding["YY"] \o dob["D"] \o spouse["D"]
    IN  When(Len(pin1) = length, Append2(pin1, rs, rw))
        \o When(Len(pin2) = length, Append3(pin2, rd, rs, rw))
        \o When(Len(pin3) = length, Append3(pin3, rd, rs, rw))
        \o When(Len(pin4) = length, Append3(pin4, rd, rs, rw))

_generate_day_repetition_patterns(sc, length) ==
    LET c(s) == sc.components[s]
        r(s) == source_reason_map(s)
        day(s) == c(s)["D"]
        one(s) ==
            When("D" \in DOMAIN c(s) /\ Len(day(s)) = 2,
                 When(length = 4, Append1(day(s) \o day(s), r(s)))
                 \o When(length = 6,
                         Append1(day(s) \o day(s) \o day(s), r(s))
                         \o When("YY" \in DOMAIN c(s)
                                 /\ Len(day(s) \o c(s)["YY"] \o day(s)) = length,
                                 Append1(day(s) \o c(s)["YY"] \o day(s), r(s)))))
    IN  Join([i \in 1..Len(sc.keys) |-> one(sc.keys[i])])

\* PatternGenerator._check_special_cases
_check_special_cases(sc, length) ==
    LET c(s) == sc.components[s]
        r(s) == source_reason_map(s)
        anniversary(s) ==
            When(r(s) = "DEMOGRAPHIC_ANNIVERSARY"
                 /\ Contains(c(s)["RAW_DATE"],
                             <<"1", "9", "9", "8", "-", "0", "5", "-", "0", "1">>)
                 /\ Len(<<"1", "0", "0", "5", "8", "9">>) = length,
                 Append1(<<"1", "0", "0", "5", "8", "9">>, r(s)))
        dob(s) ==
            When(r(s) = "DEMOGRAPHIC_DOB_SELF"
                 /\ Contains(c(s)["RAW_DATE"],
                             <<"2", "0", "0", "4", "-", "0", "7", "-", "2", "5">>)
                 /\ Len(<<"4", "0", "2", "5", "7", "0">>) = length,
                 Append1(<<"4", "0", "2", "5", "7", "0">>, r(s)))
    IN  Join([i \in 1..Len(sc.keys) |-> anniversary(sc.keys[i])])
        \o Join([i \in 1..Len(sc.keys) |-> dob(sc.keys[i])])

\* Variant: progress is computed as a share of max_combinations, which
\* divides by zero when the budget is 0.
generate_all_combinations_Progress(demographics, clock, length, limit) ==
    (CHOOSE r12 \in {
    LET combo_count == 0
        sweep(part_lengths, ticks) ==
            _generate_n_digit_combinations(sc, part_lengths, combo_count, ticks,
                                           clock, length, limit)
        nothing(raised) ==
            [raised |-> raised, outputs |-> <<>>, appends |-> <<>>, timed_out |-> FALSE]
    IN  IF sc.raised # "none" THEN nothing(sc.raised)
        ELSE IF limit = 0 THEN nothing("ZeroDivisionError")
        ELSE IF sc.keys = <<>> THEN nothing("none")
        ELSE IF length = 4
        THEN (CHOOSE r13 \in {
             [raised    |-> "none",
              outputs   |-> s22.outputs,
              appends   |-> _generate_special_patterns_4digit(sc, length),
              timed_out |-> s22.timed_out]
             : s22 \in {sweep(<<2, 2>>, 0)}} : TRUE)
        ELSE IF length = 6
        THEN (CHOOSE r14 \in {(CHOOSE r15 \in {(CHOOSE r16 \in {
             [raised    |-> "none",
              outputs   |-> s222.outputs \o s24.outputs \o s42.outputs,
              appends   |-> _generate_special_patterns_6digit(sc, length)
                            \o _generate_cross_source_patterns(sc, length)
                            \o _generate_day_repetition_patterns(sc, length)
                            \o _check_special_cases(sc, length),
              timed_out |-> s222.timed_out \/ s24.timed_out \/ s42.timed_out]
             : s42 \in {sweep(<<4, 2>>, s24.ticks)}} : TRUE)
             : s24 \in {sweep(<<2, 4>>, s222.ticks)}} : TRUE)
             : s222 \in {sweep(<<2, 2, 2>>, 0)}} : TRUE)
        ELSE nothing("none")
    : sc \in {SourceComponents(demographics)}} : TRUE)

\* generate_all_combinations(demographics) of a generator with the given
\* pin_length and max_combinations, under the given clock.  combo_count is the
\* local of line 64: the callees get its value, 0, at every call.
\* The returned dict is described by `outputs` (what the partition sweeps
\* stored) and `appends` (what the special-pattern generators appended);
\* `timed_out` (some clock sample read an elapsed time above
\* max_execution_time) is not part of the return value.
generate_all_combinations(demographics, clock, length, limit) ==
    (CHOOSE r17 \in {
    LET combo_count == 0
        sweep(part_lengths, ticks) ==
            _generate_n_digit_combinations(sc, part_lengths, combo_count, ticks,
                                           clock, length, limit)
        nothing(raised) ==
            [raised |-> raised, outputs |-> <<>>, appends |-> <<>>, timed_out |-> FALSE]
    IN  IF sc.raised # "none" THEN nothing(sc.raised)
        ELSE IF sc.keys = <<>> THEN nothing("none")
        ELSE IF length = 4
        THEN (CHOOSE r18 \in {
             [raised    |-> "none",
              outputs   |-> s22.outputs,
              appends   |-> _generate_special_patterns_4digit(sc, length),
              timed_out |-> s22.timed_out]
             : s22 \in {sweep(<<2, 2>>, 0)}} : TRUE)
        ELSE IF length = 6
        THEN (CHOOSE r19 \in {(CHOOSE r20 \in {(CHOOSE r21 \in {
             [raised    |-> "none",
              outputs   |-> s222.outputs \o s24.outputs \o s42.outputs,
              appends   |-> _generate_special_patterns_6digit(sc, length)
                            \o _generate_cross_source_patterns(sc, length)
                            \o _generate_day_repetition_patterns(sc, length)
                            \o _check_special_cases(sc, length),
              timed_out |-> s222.timed_out \/ s24.timed_out \/ s42.timed_out]
             : s42 \in {sweep(<<4, 2>>, s24.ticks)}} : TRUE)
             : s24 \in {sweep(<<2, 4>>, s222.ticks)}} : TRUE)
             : s222 \in {sweep(<<2, 2, 2>>, 0)}} : TRUE)
        ELSE nothing("none")
    : sc \in {SourceComponents(demographics)}} : TRUE)

-----------------------------------------------------------------------------
(* The arguments the operations are called with.                           *)

Str(text) == [kind |-> "str", text |-> text]

NonePin == [kind |-> "None", text |-> <<>>]

Pins ==
    { NonePin, Str(<<>>),
      Str(<<"1", "2", "3">>), Str(<<"1", "2", "x", "4">>), Str(<<"1", "2", "sup2", "4">>),
      Str(<<"4", "-", "2", "5">>), Str(<<"1", "2", "3", "4", "5", "sup2">>),
      Str(<<"1", "2", "3", "4">>), Str(<<"2", "5", "0", "7">>), Str(<<"2", "5", "2", "5">>),
      Str(<<"0", "0", "9", "8">>), Str(<<"2", "5", "0", "1">>), Str(<<"0", "5", "0", "8">>),
      Str(<<"9", "1", "3", "5">>), Str(<<"2", "5", "0", "8">>),
      Str(<<"3", "0", "0", "2">>),
      Str(<<"0", "0", "0", "0">>), Str(<<"1", "1", "1", "1">>),
      Str(<<"0", "0", "0", "0", "0", "0">>), Str(<<"1", "1", "1", "1", "1", "1">>),
      Str(<<"1", "2", "3", "4", "5", "6">>), Str(<<"4", "0", "2", "5", "7", "0">>),
      Str(<<"1", "0", "0", "5", "8", "9">>), Str(<<"2", "5", "0", "7", "0", "4">>),
      Str(<<"2", "5", "2", "5", "0", "1">>), Str(<<"9", "1", "3", "5", "7", "9">>) }

Date_2004_07_25 == <<"2", "0", "0", "4", "-", "0", "7", "-", "2", "5">>

Date_1992_08_25 == <<"1", "9", "9", "2", "-", "0", "8", "-", "2", "5">>

Date_1998_05_01 == <<"1", "9", "9", "8", "-", "0", "5", "-", "0", "1">>

\* Not a calendar date: strptime raises ValueError.
Date_2012_12_34 == <<"2", "0", "1", "2", "-", "1", "2", "-", "3", "4">>

\* Matches the parser's pattern but is no calendar date: ValueError as well.
Date_1992_02_30 == <<"1", "9", "9", "2", "-", "0", "2", "-", "3", "0">>

\* A calendar date before the year 1000.
Date_0999_01_01 == <<"0", "9", "9", "9", "-", "0", "1", "-", "0", "1">>

\* A date whose own day, year and month patterns spell the days of
\* Date_1992_08_25 and Date_1998_05_01 after its own.
Date_2025_01_25 == <<"2", "0", "2", "5", "-", "0", "1", "-", "2", "5">>

\* A date whose own day, month and year spell the PIN 100589.
Date_1989_05_10 == <<"1", "9", "8", "9", "-", "0", "5", "-", "1", "0">>

\* The values a caller may give each key of the demographics dict.
DateChoices(source) ==
    CASE source = "dob"         -> {<<>>, Date_2004_07_25, Date_2012_12_34, Date_0999_01_01,
                                    Date_2025_01_25, Date_1989_05_10}
      [] source = "spouse_dob"  -> {Date_1992_08_25, Date_1992_02_30}
      [] source = "anniversary" -> {Date_1998_05_01, Date_2012_12_34}

\* The strings extract_date_components is called with directly; the empty
\* string also stands for None (line 22 tests `not date_str`).
DateStrings ==
    { <<>>, Date_2004_07_25, Date_1992_08_25, Date_1998_05_01, Date_2012_12_34,
      Date_1992_02_30, Date_0999_01_01, Date_2025_01_25, Date_1989_05_10,
      <<"2", "0", "0", "4", "-", "7", "-", "5">>,
      <<"2", "0", "0", "4", "-", "0", "7", "-", "2", "5", "x">>,
      <<"2", "5", "-", "0", "7", "-", "2", "0", "0", "4">>,
      <<"x", "x", "x", "x">>,
      <<"0", "0", "0", "1", "-", "0", "1", "-", "0", "1">>,
      <<"0", "0", "0", "0", "-", "0", "1", "-", "0", "1">>,
      <<"1", "0", "0", "0", "-", "0", "1", "-", "0", "1">>,
      <<"9", "9", "9", "9", "-", "1", "2", "-", "3", "1">>,
      <<"1", "9", "0", "0", "-", "0", "2", "-", "2", "9">>,
      <<"2", "0", "0", "0", "-", "0", "2", "-", "2", "9">>,
      <<"2", "0", "sup2", "4", "-", "0", "7", "-", "2", "5">> }

\* The lengths extract_components_by_length is asked for: those of the
\* partitions (2 and 4), and others up to beyond the longest component, the
\* 10-character raw date.
ComponentLengths == {1, 2, 4, 6, 10, 11}

Dicts ==
    UNION {{m \in [ks -> UNION {DateChoices(s) : s \in ks}] :
               \A s \in ks : m[s] \in DateChoices(s)} : ks \in SUBSET SourceKeys}

NoneDemographics == [none |-> TRUE, map |-> <<>>]

Demographics == {NoneDemographics} \cup {[none |-> FALSE, map |-> m] : m \in Dicts}

\* The clocks: one that never expires within the call, and those that expire
\* after 0..MaxTicks samples.
MaxTicks == 2

NeverExpires == [expires |-> FALSE, after |-> 0]

Clocks == {NeverExpires} \cup {[expires |-> TRUE, after |-> n] : n \in 0..MaxTicks}

\* The budgets: the default of PatternGenerator.__init__ and the small ones.
DefaultMaxCombinations == 500000

MaxLowBudget == 1

Budgets == {DefaultMaxCombinations} \cup (0..MaxLowBudget)

\* The calls of generate_all_combinations the model makes: every demographics
\* argument under every clock, for both PIN lengths and every budget.  Each is
\* evaluated once, here, and looked up wherever the call is made again.
GeneratorCalls == Demographics \X Clocks \X {4, 6} \X Budgets

Generated == Dict([c \in GeneratorCalls |-> generate_all_combinations(c[1], c[2], c[3], c[4])])

\* self.pattern_generator.generate_all_combinations(demographics)
Generation(demographics, clock, length, limit) ==
    IF <<demographics, clock, length, limit>> \in DOMAIN Generated
    THEN Generated[<<demographics, clock, length, limit>>]
    ELSE generate_all_combinations(demographics, clock, length, limit)

\* The calls of extract_date_patterns the model makes, each evaluated once.
ExtractedPatterns ==
    Dict([c \in DateStrings \X {4, 6} |-> extract_date_patterns(c[1], c[2])])

\* self.component_extractor.extract_date_patterns(date_str, self.pin_length)
Patterns(date_str, length) ==
    IF <<date_str, length>> \in DOMAIN ExtractedPatterns
    THEN ExtractedPatterns[<<date_str, length>>]
    ELSE extract_date_patterns(date_str, length)

-----------------------------------------------------------------------------
(* The dict generate_all_combinations returns                              *)

\* The keys of the dict a generation returns.
Keys(g) ==
    UNION {g.outputs[i].keys : i \in 1..Len(g.outputs)}
    \cup {g.appends[i][1] : i \in 1..Len(g.appends)}

\* pin in pin_reasons, for the dict a generation returns.
HasKey(g, pin) ==
    \/ \E i \in 1..Len(g.outputs) : pin \in g.outputs[i].keys
    \/ \E i \in 1..Len(g.appends) : g.appends[i][1] = pin

\* pin_reasons[pin] of the dict a generation returns, as the bag of the list's
\* entries: a reason the sweeps recorded occurs once (lines 195-197 test
\* membership), and once more for every append of a special-pattern generator.
ReasonsAt(g, pin) ==
    (CHOOSE r22 \in {
    LET count(r) == (IF r \in swept THEN 1 ELSE 0)
                    + Cardinality({i \in 1..Len(g.appends) : g.appends[i] = <<pin, r>>})
        codes == {source_reason_map(s) : s \in SourceKeys}
    IN  Dict([r \in {x \in codes : count(x) > 0} |-> count(r)])
    : swept \in {UNION {g.outputs[i].reasons :
                           i \in {j \in 1..Len(g.outputs) : pin \in g.outputs[j].keys}}}} : TRUE)

\* The dict itself.
pin_reasons(g) == [pin \in Keys(g) |-> ReasonsAt(g, pin)]

\* The candidates one call enumerates: the loop iterations of all the calls of
\* _generate_pins_from_components.
Enumerated(g) == Sum([i \in 1..Len(g.outputs) |-> g.outputs[i].iterations])

-----------------------------------------------------------------------------
(* SpecialPatternDetector and MPINValidator                                *)

\* pin_data.get_common_pins(pin_length): the common-PIN table.
get_common_pins(length) ==
    IF length = 4
    THEN {<<"1", "2", "3", "4">>, <<"0", "0", "0", "0">>, <<"1", "1", "1", "1">>}
    ELSE {<<"1", "2", "3", "4", "5", "6">>, <<"0", "0", "0", "0", "0", "0">>,
          <<"1", "1", "1", "1", "1", "1">>}

\* Variant: the list is returned as collected.
Deduplicate_AsCollected(reasons) == reasons

\* list(set(reasons)): every code of the list once.
Deduplicate(reasons) == SetToBag(BagToSet(reasons))

\* Variant: the PIN is compared as a number, so one with a leading zero is
\* found too short.
validate_pin_format_AsNumber(pin, length) ==
    IF pin.kind # "str" \/ Len(pin.text) = 0 THEN FALSE
    ELSE IF Len(pin.text) # length \/ pin.text[1] = "0" THEN FALSE
    ELSE IF ~isdigit(pin.text) THEN FALSE
    ELSE TRUE

\* A pin argument is None or a str: [kind |-> "None" | "str", text |-> the str].
validate_pin_format(pin, length) ==
    IF pin.kind # "str" \/ Len(pin.text) = 0 THEN FALSE
    ELSE IF Len(pin.text) # length THEN FALSE
    ELSE IF ~isdigit(pin.text) THEN FALSE
    ELSE TRUE

\* Variant: the table is looked up for 4-digit PINs whatever the length.
is_common_pin_FourDigitTable(pin, length) == pin \in get_common_pins(4)

is_common_pin(pin, length) == pin \in get_common_pins(length)

\* Variant: the literals are matched on the PIN alone.
check_direct_special_cases_PinOnly(pin, demographics) ==
    IF pin = <<"4", "0", "2", "5", "7", "0">>
    THEN SetToBag({"DEMOGRAPHIC_DOB_SELF"})
    ELSE IF pin = <<"1", "0", "0", "5", "8", "9">>
    THEN SetToBag({"DEMOGRAPHIC_ANNIVERSARY"})
    ELSE EmptyBag

\* SpecialPatternDetector.check_direct_special_cases(pin, demographics)
check_direct_special_cases(pin, demographics) ==
    LET get(source) == IF source \in DOMAIN demographics.map
                       THEN demographics.map[source] ELSE <<>>
    IN  IF pin = <<"4", "0", "2", "5", "7", "0">>
           /\ get("dob") = <<"2", "0", "0", "4", "-", "0", "7", "-", "2", "5">>
        THEN SetToBag({"DEMOGRAPHIC_DOB_SELF"})
        ELSE IF pin = <<"1", "0", "0", "5", "8", "9">>
                /\ get("anniversary") = <<"1", "9", "9", "8", "-", "0", "5", "-", "0", "1">>
        THEN SetToBag({"DEMOGRAPHIC_ANNIVERSARY"})
        ELSE EmptyBag

\* The calls of extract_date_patterns the loop of lines 90-99 makes: one for
\* every source with a truthy value, in the loop's order, up to the first that
\* raises.
DirectCalls(direct) ==
    LET sources == SelectSeq(SourceOrder, LAMBDA s : s \in DOMAIN direct)
        made    == {i \in 1..Len(sources) :
                       \A j \in 1..(i - 1) : direct[sources[j]].raised = "none"}
    IN  List([i \in made |-> "extract_date_patterns"])

\* Variant: the special-case check is made last, after the fallback.
check_demographic_matches_SpecialLast(pin, demographics, clock, length, limit) ==
    IF NotDemographics(demographics)
    THEN [raised |-> "none", reasons |-> EmptyBag, calls |-> <<>>]
    ELSE (CHOOSE r29 \in {
    LET matched   == {s \in DOMAIN direct : pin \in direct[s].patterns}
        weakness_reasons == SetToBag({source_reason_map(s) : s \in matched})
    IN  IF \E s \in DOMAIN direct : direct[s].raised # "none"
        THEN [raised |-> "IndexError", reasons |-> EmptyBag, calls |-> DirectCalls(direct)]
        ELSE IF weakness_reasons = EmptyBag
        THEN (CHOOSE r30 \in {
             IF g.raised # "none"
             THEN [raised |-> g.raised, reasons |-> EmptyBag,
                   calls |-> DirectCalls(direct) \o <<"generate_all_combinations">>]
             ELSE [raised |-> "none",
                   reasons |-> Deduplicate((IF HasKey(g, pin) THEN ReasonsAt(g, pin)
                                            ELSE EmptyBag) (+) special_matches),
                   calls |-> DirectCalls(direct)
                             \o <<"generate_all_combinations", "check_direct_special_cases">>]
             : g \in {Generation(demographics, clock, length, limit)}} : TRUE)
        ELSE [raised |-> "none",
              reasons |-> Deduplicate(weakness_reasons (+) special_matches),
              calls |-> DirectCalls(direct) \o <<"check_direct_special_cases">>]
    : direct \in {Dict([s \in {k \in SourceKeys : Truthy(demographics, k)} |->
                          Patterns(demographics.map[s], length)])},
      special_matches \in {check_direct_special_cases(pin, demographics)}} : TRUE)

\* Variant: the generator is consulted whether or not a direct match was
\* found.
check_demographic_matches_AlwaysGenerate(pin, demographics, clock, length, limit) ==
    IF NotDemographics(demographics)
    THEN [raised |-> "none", reasons |-> EmptyBag, calls |-> <<>>]
    ELSE (CHOOSE r23 \in {
    LET matched   == {s \in DOMAIN direct : pin \in direct[s].patterns}
        weakness_reasons == SetToBag({source_reason_map(s) : s \in matched})
        special   == DirectCalls(direct) \o <<"check_direct_special_cases">>
    IN  IF \E s \in DOMAIN direct : direct[s].raised # "none"
        THEN [raised |-> "IndexError", reasons |-> EmptyBag, calls |-> DirectCalls(direct)]
        ELSE IF special_matches # EmptyBag
        THEN [raised |-> "none",
              reasons |-> Deduplicate(weakness_reasons (+) special_matches),
              calls |-> special]
        ELSE (CHOOSE r24 \in {
             IF g.raised # "none"
             THEN [raised |-> g.raised, reasons |-> EmptyBag,
                   calls |-> special \o <<"generate_all_combinations">>]
             ELSE IF HasKey(g, pin)
             THEN [raised |-> "none",
                   reasons |-> Deduplicate(weakness_reasons (+) ReasonsAt(g, pin)),
                   calls |-> special \o <<"generate_all_combinations">>]
             ELSE [raised |-> "none", reasons |-> Deduplicate(weakness_reasons),
                   calls |-> special \o <<"generate_all_combinations">>]
             : g \in {Generation(demographics, clock, length, limit)}} : TRUE)
    : direct \in {Dict([s \in {k \in SourceKeys : Truthy(demographics, k)} |->
                          Patterns(demographics.map[s], length)])},
      special_matches \in {check_direct_special_cases(pin, demographics)}} : TRUE)

\* check_demographic_matches(pin, demographics): [raised, reasons, calls],
\* reasons the bag of the returned list's entries, calls the callees invoked,
\* in order.
check_demographic_matches(pin, demographics, clock, length, limit) ==
    IF NotDemographics(demographics)
    THEN [raised |-> "none", reasons |-> EmptyBag, calls |-> <<>>]
    ELSE (CHOOSE r25 \in {
    LET matched   == {s \in DOMAIN direct : pin \in direct[s].patterns}
        weakness_reasons == SetToBag({source_reason_map(s) : s \in matched})
        special   == DirectCalls(direct) \o <<"check_direct_special_cases">>
    IN  IF \E s \in DOMAIN direct : direct[s].raised # "none"
        THEN [raised |-> "IndexError", reasons |-> EmptyBag, calls |-> DirectCalls(direct)]
        ELSE IF special_matches # EmptyBag
        THEN [raised |-> "none",
              reasons |-> Deduplicate(weakness_reasons (+) special_matches),
              calls |-> special]
        ELSE IF weakness_reasons = EmptyBag
        THEN (CHOOSE r26 \in {
             IF g.raised # "none"
             THEN [raised |-> g.raised, reasons |-> EmptyBag,
                   calls |-> special \o <<"generate_all_combinations">>]
             ELSE IF HasKey(g, pin)
             THEN [raised |-> "none",
                   reasons |-> Deduplicate(weakness_reasons (+) ReasonsAt(g, pin)),
                   calls |-> special \o <<"generate_all_combinations">>]
             ELSE [raised |-> "none", reasons |-> Deduplicate(weakness_reasons),
                   calls |-> special \o <<"generate_all_combinations">>]
             : g \in {Generation(demographics, clock, length, limit)}} : TRUE)
        ELSE [raised |-> "none", reasons |-> Deduplicate(weakness_reasons),
              calls |-> special]
    : direct \in {Dict([s \in {k \in SourceKeys : Truthy(demographics, k)} |->
                          Patterns(demographics.map[s], length)])},
      special_matches \in {check_direct_special_cases(pin, demographics)}} : TRUE)

\* get_weakness_reasons(pin, demographics)
get_weakness_reasons(pin, demographics, clock, length, limit) ==
    LET common == IF is_common_pin(pin, length) THEN SetToBag({"COMMONLY_USED"})
                  ELSE EmptyBag
    IN  IF NotDemographics(demographics) THEN [raised |-> "none", reasons |-> Deduplicate(common)]
        ELSE (CHOOSE r27 \in {
             IF demographic_reasons.raised # "none"
             THEN [raised |-> demographic_reasons.raised, reasons |-> EmptyBag]
             ELSE [raised |-> "none",
                   reasons |-> Deduplicate(common (+) demographic_reasons.reasons)]
             : demographic_reasons \in
                   {check_demographic_matches(pin, demographics, clock, length, limit)}} : TRUE)

\* Variant: only a commonly used PIN is labelled WEAK.
StrengthOf_CommonOnly(weakness_reasons) ==
    IF "COMMONLY_USED" \in BagToSet(weakness_reasons) THEN "WEAK" ELSE "STRONG"

\* The strength label of validate_pin line 175 and evaluate_strength line 154.
StrengthOf(weakness_reasons) == IF weakness_reasons # EmptyBag THEN "WEAK" ELSE "STRONG"

\* What a call that raised leaves the caller: no verdict record.
Raised(error) ==
    [raised |-> error, pin |-> <<>>, pin_length |-> 0, strength |-> "",
     weakness_reasons |-> EmptyBag]

\* validate_pin(pin, demographics) of a validator with the given pin_length
\* whose generator has the given max_combinations, under the given clock.
validate_pin(pin, demographics, clock, length, limit) ==
    IF ~validate_pin_format(pin, length) THEN Raised("ValueError")
    ELSE (CHOOSE r28 \in {
             IF weakness_reasons.raised # "none" THEN Raised(weakness_reasons.raised)
             ELSE [raised           |-> "none",
                   pin              |-> pin.text,
                   pin_length       |-> length,
                   strength         |-> StrengthOf(weakness_reasons.reasons),
                   weakness_reasons |-> weakness_reasons.reasons]
             : weakness_reasons \in
                   {get_weakness_reasons(pin.text, demographics, clock, length, limit)}} : TRUE)

-----------------------------------------------------------------------------
(* pin_validator.MPINValidator, the validator in one class                 *)

\* pin_validator._generate_special_patterns_4digit: the day repetition of every
\* source, then day and month pairs of every two sources.
pin_validator_generate_special_patterns_4digit(sc, length) ==
    LET c(s) == sc.components[s]
        r(s) == source_reason_map(s)
        repetition(s) ==
            When("D" \in DOMAIN c(s) /\ Len(c(s)["D"]) = 2,
                 Append1(c(s)["D"] \o c(s)["D"], r(s)))
        pair(s1, s2) ==
            LET day1   == c(s1)["D"]
                day2   == c(s2)["D"]
                month1 == c(s1)["M"]
                month2 == c(s2)["M"]
            IN  When("D" \in DOMAIN c(s1) /\ "D" \in DOMAIN c(s2),
                     When(Len(day1 \o day2) = length, Append2(day1 \o day2, r(s1), r(s2)))
                     \o When(Len(day2 \o day1) = length, Append2(day2 \o day1, r(s1), r(s2))))
                \o
                When("M" \in DOMAIN c(s1) /\ "M" \in DOMAIN c(s2),
                     When(Len(month1 \o month2) = length,
                          Append2(month1 \o month2, r(s1), r(s2)))
                     \o When(Len(month2 \o month1) = length,
                             Append2(month2 \o month1, r(s1), r(s2))))
        pairs == SourcePairs(sc.keys)
    IN  Join([i \in 1..Len(sc.keys) |-> repetition(sc.keys[i])])
        \o Join([i \in 1..Len(pairs) |-> pair(pairs[i][1], pairs[i][2])])

\* pin_validator.generate_all_combinations(demographics): statement for
\* statement the method of PatternGenerator, over the same extractor and sweep
\* code; what it returns differs by the appends of the 4-digit rules.
pin_validator_generate_all_combinations(demographics, clock, length, limit) ==
    (CHOOSE r29 \in {
        IF g.raised = "none" /\ length = 4
        THEN (CHOOSE r30 \in {
                 IF sc.keys = <<>> THEN g
                 ELSE [g EXCEPT !.appends =
                           pin_validator_generate_special_patterns_4digit(sc, length)]
                 : sc \in {SourceComponents(demographics)}} : TRUE)
        ELSE g
        : g \in {Generation(demographics, clock, length, limit)}} : TRUE)

\* pin_validator.check_demographic_matches(pin, demographics): [raised, reasons].
pin_validator_check_demographic_matches(pin, demographics, clock, length, limit) ==
    IF NotDemographics(demographics)
    THEN [raised |-> "none", reasons |-> EmptyBag]
    ELSE (CHOOSE r31 \in {
    LET matched   == {s \in DOMAIN direct : pin \in direct[s].patterns}
        weakness_reasons == SetToBag({source_reason_map(s) : s \in matched})
        dob_case  == /\ pin = <<"4", "0", "2", "5", "7", "0">>
                     /\ "dob" \in DOMAIN demographics.map
                     /\ demographics.map["dob"] = Date_2004_07_25
        anniversary_case ==
                     /\ pin = <<"1", "0", "0", "5", "8", "9">>
                     /\ "anniversary" \in DOMAIN demographics.map
                     /\ demographics.map["anniversary"] = Date_1998_05_01
    IN  IF \E s \in DOMAIN direct : direct[s].raised # "none"
        THEN [raised |-> "IndexError", reasons |-> EmptyBag]
        ELSE IF dob_case
        THEN [raised |-> "none",
              reasons |-> Deduplicate(weakness_reasons (+) SetToBag({"DEMOGRAPHIC_DOB_SELF"}))]
        ELSE IF anniversary_case
        THEN [raised |-> "none",
              reasons |-> Deduplicate(weakness_reasons
                                        (+) SetToBag({"DEMOGRAPHIC_ANNIVERSARY"}))]
        ELSE IF weakness_reasons = EmptyBag
        THEN (CHOOSE r32 \in {
             IF g.raised # "none" THEN [raised |-> g.raised, reasons |-> EmptyBag]
             ELSE IF HasKey(g, pin)
             THEN [raised |-> "none",
                   reasons |-> Deduplicate(weakness_reasons (+) ReasonsAt(g, pin))]
             ELSE [raised |-> "none", reasons |-> Deduplicate(weakness_reasons)]
             : g \in {pin_validator_generate_all_combinations(demographics, clock,
                                                              length, limit)}} : TRUE)
        ELSE [raised |-> "none", reasons |-> Deduplicate(weakness_reasons)]
    : direct \in {Dict([s \in {k \in SourceKeys : Truthy(demographics, k)} |->
                          Patterns(demographics.map[s], length)])}} : TRUE)

\* pin_validator.get_weakness_reasons(pin, demographics)
pin_validator_get_weakness_reasons(pin, demographics, clock, length, limit) ==
    LET common == IF is_common_pin(pin, length) THEN SetToBag({"COMMONLY_USED"})
                  ELSE EmptyBag
    IN  IF NotDemographics(demographics) THEN [raised |-> "none", reasons |-> Deduplicate(common)]
        ELSE (CHOOSE r33 \in {
             IF demographic_reasons.raised # "none"
             THEN [raised |-> demographic_reasons.raised, reasons |-> EmptyBag]
             ELSE [raised |-> "none",
                   reasons |-> Deduplicate(common (+) demographic_reasons.reasons)]
             : demographic_reasons \in
                   {pin_validator_check_demographic_matches(pin, demographics, clock,
                                                            length, limit)}} : TRUE)

\* pin_validator.validate_pin(pin, demographics) of a validator with the given
\* pin_length and max_combinations, under the given clock.
pin_validator_validate_pin(pin, demographics, clock, length, limit) ==
    IF ~validate_pin_format(pin, length) THEN Raised("ValueError")
    ELSE (CHOOSE r34 \in {
             IF weakness_reasons.raised # "none" THEN Raised(weakness_reasons.raised)
             ELSE [raised           |-> "none",
                   pin              |-> pin.text,
                   pin_length       |-> length,
                   strength         |-> StrengthOf(weakness_reasons.reasons),
                   weakness_reasons |-> weakness_reasons.reasons]
             : weakness_reasons \in
                   {pin_validator_get_weakness_reasons(pin.text, demographics, clock,
                                                       length, limit)}} : TRUE)

-----------------------------------------------------------------------------
(* The state machine: a caller that configures the generator's budget and  *)
(* calls validate_pin or generate_all_combinations, one call at a time.    *)

NoCall == [raised |-> "no call"]

Init ==
    /\ pin_length \in {4, 6}
    /\ max_combinations = DefaultMaxCombinations
    /\ op = "idle"
    /\ call = NoCall
    /\ gen = NoCall
    /\ ext = NoCall

\* PatternGenerator.__init__(pin_length, max_combinations=k)
Configure(k) ==
    /\ op = "idle"
    /\ k # max_combinations
    /\ max_combinations' = k
    /\ UNCHANGED <<pin_length, op, call, gen, ext>>

\* The callees check_demographic_matches invokes in one call of validate_pin:
\* none when the format check raises (line 168) or when demographics is falsy
\* (line 136).
Calls(pin, demographics, clock, length, limit) ==
    IF validate_pin_format(pin, length) /\ ~NotDemographics(demographics)
    THEN check_demographic_matches(pin.text, demographics, clock, length, limit).calls
    ELSE <<>>

\* Variant: the combination counter lives on the generator, and a call leaves
\* the budget spent for the calls after it.
ValidatePin_SpendsBudget(pin, demographics, clock) ==
    /\ op = "idle"
    /\ op' = "validate_pin"
    /\ call' = [pin |-> pin, demographics |-> demographics, clock |-> clock,
                result |-> validate_pin(pin, demographics, clock, pin_length,
                                        max_combinations),
                calls  |-> Calls(pin, demographics, clock, pin_length,
                                 max_combinations)]
    /\ gen' = NoCall
    /\ ext' = NoCall
    /\ max_combinations' = 0
    /\ UNCHANGED pin_length

\* MPINValidator.validate_pin(pin, demographics), the whole call; `calls` is
\* what the call invoked on the way, no part of what it returns.
ValidatePin(pin, demographics, clock) ==
    /\ op = "idle"
    /\ op' = "validate_pin"
    /\ call' = [pin |-> pin, demographics |-> demographics, clock |-> clock,
                result |-> validate_pin(pin, demographics, clock, pin_length,
                                        max_combinations),
                calls  |-> Calls(pin, demographics, clock, pin_length,
                                 max_combinations)]
    /\ gen' = NoCall
    /\ ext' = NoCall
    /\ UNCHANGED <<pin_length, max_combinations>>

\* PatternGenerator.generate_all_combinations(demographics), the whole call.
GenerateAllCombinations(demographics, clock) ==
    /\ op = "idle"
    /\ op' = "generate"
    /\ \E g \in {generate_all_combinations(demographics, clock, pin_length,
                                            max_combinations)} :
           gen' = [demographics |-> demographics, clock |-> clock,
                   raised |-> g.raised,
                   pin_reasons |-> pin_reasons(g),
                   enumerated |-> Enumerated(g),
                   timed_out |-> g.timed_out]
    /\ call' = NoCall
    /\ ext' = NoCall
    /\ UNCHANGED <<pin_length, max_combinations>>

\* DateComponentExtractor.extract_date_components(date_str), the whole call.
ExtractDateComponents(date_str) ==
    /\ op = "idle"
    /\ op' = "extract_date_components"
    /\ \E e \in {extract_date_components(date_str)} :
           ext' = [date_str |-> date_str, raised |-> e.raised,
                   components |-> e.components]
    /\ call' = NoCall
    /\ gen' = NoCall
    /\ UNCHANGED <<pin_length, max_combinations>>

\* DateComponentExtractor.extract_date_patterns(date_str, pin_length), the
\* whole call, with the pin_length the validator passes.
ExtractDatePatterns(date_str) ==
    /\ op = "idle"
    /\ op' = "extract_date_patterns"
    /\ \E e \in {extract_date_patterns(date_str, pin_length)} :
           ext' = [date_str |-> date_str, raised |-> e.raised, patterns |-> e.patterns]
    /\ call' = NoCall
    /\ gen' = NoCall
    /\ UNCHANGED <<pin_length, max_combinations>>

\* DateComponentExtractor.extract_components_by_length(components, length),
\* the whole call, for the component dict of a date.
ExtractComponentsByLength(date_str, length) ==
    /\ op = "idle"
    /\ op' = "extract_components_by_length"
    /\ \E e \in {extract_date_components(date_str)} :
           /\ e.raised = "none"
           /\ ext' = [components |-> e.components, length |-> length,
                      raised |-> "none",
                      extracted |-> extract_components_by_length(e.components, length)]
    /\ call' = NoCall
    /\ gen' = NoCall
    /\ UNCHANGED <<pin_length, max_combinations>>

\* The call has returned and the caller is done with its outcome.
Return ==
    /\ op # "idle"
    /\ op' = "idle"
    /\ call' = NoCall
    /\ gen' = NoCall
    /\ ext' = NoCall
    /\ UNCHANGED <<pin_length, max_combinations>>

Next ==
    \/ \E k \in Budgets : Configure(k)
    \/ \E pin \in Pins, demographics \in Demographics, clock \in Clocks :
          ValidatePin(pin, demographics, clock)
    \/ \E demographics \in Demographics \ {NoneDemographics}, clock \in Clocks :
          GenerateAllCombinations(demographics, clock)
    \/ \E date_str \in DateStrings : ExtractDateComponents(date_str)
    \/ \E date_str \in DateStrings : ExtractDatePatterns(date_str)
    \/ \E date_str \in DateStrings, length \in ComponentLengths :
          ExtractComponentsByLength(date_str, length)
    \/ Return

Spec == Init /\ [][Next]_vars

-----------------------------------------------------------------------------
(* Properties of validate_pin.                                             *)

\* A PIN as the format rule describes it: a string of exactly `length`
\* decimal digits 0-9.
DecimalPin(pin, length) ==
    /\ pin.kind = "str"
    /\ Len(pin.text) = length
    /\ \A i \in 1..Len(pin.text) : pin.text[i] \in AsciiDigits

Returned == op = "validate_pin" /\ call.result.raised = "none"

ReasonCodes(weakness_reasons) == BagToSet(weakness_reasons)

\* C1: validate_pin raises ValueError, and returns no verdict, for exactly the
\* PINs that are absent, empty, of a length other than pin_length, or that
\* contain a character other than a decimal digit; a PIN of exactly
\* pin_length decimal digits is not rejected by the format check.
C1_FormatRejection ==
    op = "validate_pin" =>
        (call.result.raised = "ValueError" <=> ~DecimalPin(call.pin, pin_length))

\* C2: the strength of a returned verdict is WEAK exactly when its
\* weakness_reasons list is non-empty, and STRONG otherwise.
C2_StrengthIffReasons ==
    Returned =>
        /\ call.result.strength \in {"WEAK", "STRONG"}
        /\ call.result.strength = "WEAK" <=> call.result.weakness_reasons # EmptyBag
        /\ call.result.strength = "STRONG" <=> call.result.weakness_reasons = EmptyBag

C2_Witness ==
    /\ Returned
    /\ call.result.strength = "WEAK"
    /\ "COMMONLY_USED" \notin ReasonCodes(call.result.weakness_reasons)
    /\ Cardinality(ReasonCodes(call.result.weakness_reasons)) = 2

\* C3: a PIN of the common-PIN table validated without demographics is WEAK
\* with COMMONLY_USED among the reasons, and for any demographics a returned
\* verdict contains COMMONLY_USED exactly when the PIN is in the table.
C3_CommonlyUsed ==
    /\ Returned =>
           ("COMMONLY_USED" \in ReasonCodes(call.result.weakness_reasons)
                <=> call.pin.text \in get_common_pins(pin_length))
    /\ (/\ op = "validate_pin"
        /\ call.demographics.none
        /\ call.pin.kind = "str"
        /\ call.pin.text \in get_common_pins(pin_length))
       => /\ call.result.raised = "none"
          /\ call.result.strength = "WEAK"
          /\ "COMMONLY_USED" \in ReasonCodes(call.result.weakness_reasons)

C3_Witness ==
    /\ Returned
    /\ ~call.demographics.none
    /\ call.pin.text \in get_common_pins(pin_length)
    /\ ReasonCodes(call.result.weakness_reasons)
           = {"COMMONLY_USED", "DEMOGRAPHIC_DOB_SELF"}

\* C4: a PIN of pin_length decimal digits that is not in the common-PIN
\* table, validated with demographics None or {}, is STRONG with an empty
\* reason list.
C4_StrongWithoutDemographics ==
    (/\ op = "validate_pin"
     /\ NotDemographics(call.demographics)
     /\ DecimalPin(call.pin, pin_length)
     /\ call.pin.text \notin get_common_pins(pin_length))
    => /\ call.result.raised = "none"
       /\ call.result.strength = "STRONG"
       /\ call.result.weakness_reasons = EmptyBag

C4_Witness ==
    /\ Returned
    /\ call.demographics = [none |-> FALSE, map |-> <<>>]
    /\ DecimalPin(call.pin, pin_length)
    /\ call.pin.text \notin get_common_pins(pin_length)
    /\ call.result.strength = "STRONG"

\* A non-empty string that is no YYYY-MM-DD date: it does not have the three
\* fields, or its year is 0000, or its day is beyond the month's last one.
InvalidDate(v) ==
    /\ v # <<>>
    /\ \A p \in DateSplit(v) :
           LET y == FieldValue(SubSeq(v, 1, 4))
               m == FieldValue(SubSeq(v, p[1] + 1, p[2] - 1))
               d == FieldValue(SubSeq(v, p[2] + 1, Len(v)))
           IN  y = 0 \/ d > DaysInMonth(y, m)

\* The demographics dict with one key removed.
Without(demographics, source) ==
    [none |-> FALSE,
     map  |-> [k \in DOMAIN demographics.map \ {source} |-> demographics.map[k]]]

\* C5: a demographic source whose value is no valid date is treated exactly
\* as if the key were absent: the call has the outcome (strength and reasons,
\* and no error of its own) of the same call with that key removed.
C5_InvalidDateAsAbsent ==
    op = "validate_pin" =>
        \A s \in DOMAIN call.demographics.map :
            InvalidDate(call.demographics.map[s]) =>
                call.result = validate_pin(call.pin, Without(call.demographics, s),
                                           call.clock, pin_length, max_combinations)

C5_Witness ==
    /\ Returned
    /\ "spouse_dob" \in DOMAIN call.demographics.map
    /\ InvalidDate(call.demographics.map["spouse_dob"])
    /\ ReasonCodes(call.result.weakness_reasons) = {"DEMOGRAPHIC_DOB_SELF"}

-----------------------------------------------------------------------------
(* Properties of extract_date_components and generate_all_combinations.    *)

\* C6: extract_date_components never raises: it returns the empty dict for a
\* missing, empty or unparseable string, and the full component dict for
\* every string the parser accepts, whatever its year from 0001 to 9999.
C6_ExtractNeverRaises ==
    op = "extract_date_components" =>
        /\ ext.raised = "none"
        /\ IF strptime(ext.date_str).ok
           THEN DOMAIN ext.components = ComponentNames
           ELSE ext.components = NoComponents

\* C7: every key of the map generate_all_combinations returns is a string of
\* exactly pin_length decimal digits.
C7_KeysAreDecimalPins ==
    (op = "generate" /\ gen.raised = "none") =>
        \A key \in DOMAIN gen.pin_reasons : DecimalPin(Str(key), pin_length)

\* C10: max_combinations bounds the work of one generate_all_combinations
\* call: the candidates enumerated over the whole call are at most
\* max_combinations, plus the one on which the counter trips.
C10_BudgetBoundsTotalWork ==
    op = "generate" => gen.enumerated <= max_combinations + 1

-----------------------------------------------------------------------------
(* Properties of the time and count budgets.                               *)

SameVerdict(a, b) ==
    /\ a.raised = b.raised
    /\ a.strength = b.strength
    /\ ReasonCodes(a.weakness_reasons) = ReasonCodes(b.weakness_reasons)

\* C8: validate_pin is deterministic: a second call with the same PIN, the
\* same demographics and the same pin_length returns the same strength and
\* the same set of reason codes, whatever elapsed time the budget checks of
\* either call observe.
C8_Deterministic ==
    op = "validate_pin" =>
        \A clock \in Clocks :
            \A again \in {validate_pin(call.pin, call.demographics, clock,
                                        pin_length, max_combinations)} :
                SameVerdict(call.result, again)

LowerBudget == max_combinations < DefaultMaxCombinations

\* C9: lowering max_combinations never makes generate_all_combinations or
\* validate_pin raise, the reason codes validate_pin reports with the lower
\* budget are among those it reports with the default budget, and the keys
\* generate_all_combinations returns with the lower budget are among those it
\* returns with the default budget.
C9_LowerBudgetSubset ==
    /\ (LowerBudget /\ op = "validate_pin") =>
           \A clock \in Clocks :
               \A default \in {validate_pin(call.pin, call.demographics, clock,
                                             pin_length, DefaultMaxCombinations)} :
                   default.raised = "none" =>
                       /\ call.result.raised = "none"
                       /\ ReasonCodes(call.result.weakness_reasons)
                              \subseteq ReasonCodes(default.weakness_reasons)
    /\ (LowerBudget /\ op = "generate") =>
           \A clock \in Clocks :
               \A default \in {Generation(gen.demographics, clock, pin_length,
                                           DefaultMaxCombinations)} :
                   default.raised = "none" =>
                       /\ gen.raised = "none"
                       /\ \A key \in DOMAIN gen.pin_reasons : HasKey(default, key)

\* The call reaches the generator fallback of check_demographic_matches: the
\* PIN passes the format check, some demographics are given, and neither a
\* direct pattern nor a special case matches.
FallbackReached(pin, demographics) ==
    /\ validate_pin_format(pin, pin_length)
    /\ ~NotDemographics(demographics)
    /\ \A s \in {k \in SourceKeys : Truthy(demographics, k)} :
           LET direct == Patterns(demographics.map[s], pin_length)
           IN  direct.raised = "none" /\ pin.text \notin direct.patterns
    /\ check_direct_special_cases(pin.text, demographics) = EmptyBag

\* Some budget check of the call reads an elapsed time above
\* max_execution_time.
CutByTime(pin, demographics, clock, limit) ==
    /\ FallbackReached(pin, demographics)
    /\ Generation(demographics, clock, pin_length, limit).timed_out

\* C8 as amended: two calls with the same PIN, demographics and pin_length
\* return the same strength and the same set of reason codes provided that in
\* neither call a budget check of the generator reads an elapsed time above
\* max_execution_time.
C8_DeterministicWithinTimeBudget ==
    op = "validate_pin" =>
        \A clock \in Clocks :
            (/\ ~CutByTime(call.pin, call.demographics, call.clock, max_combinations)
             /\ ~CutByTime(call.pin, call.demographics, clock, max_combinations))
            => \A again \in {validate_pin(call.pin, call.demographics, clock,
                                           pin_length, max_combinations)} :
                   SameVerdict(call.result, again)

C8_Witness ==
    /\ Returned
    /\ FallbackReached(call.pin, call.demographics)
    /\ ~CutByTime(call.pin, call.demographics, call.clock, max_combinations)
    /\ \E s \in SourceKeys :
           source_reason_map(s) \in ReasonCodes(call.result.weakness_reasons)
    /\ \E clock \in Clocks :
           CutByTime(call.pin, call.demographics, clock, max_combinations)

\* C9 as amended: lowering max_combinations never makes either call raise,
\* and the reason codes, and the generator's keys, with the lower budget are
\* among those with the default budget, provided the call with the default
\* budget is not cut short by the time budget.
C9_LowerBudgetSubsetWithinTimeBudget ==
    /\ (LowerBudget /\ op = "validate_pin") =>
           \A clock \in Clocks :
               \A default \in {validate_pin(call.pin, call.demographics, clock,
                                             pin_length, DefaultMaxCombinations)} :
                   (/\ default.raised = "none"
                    /\ ~CutByTime(call.pin, call.demographics, clock,
                                  DefaultMaxCombinations))
                   => /\ call.result.raised = "none"
                      /\ ReasonCodes(call.result.weakness_reasons)
                             \subseteq ReasonCodes(default.weakness_reasons)
    /\ (LowerBudget /\ op = "generate") =>
           \A clock \in Clocks :
               \A default \in {Generation(gen.demographics, clock, pin_length,
                                           DefaultMaxCombinations)} :
                   (default.raised = "none" /\ ~default.timed_out)
                   => /\ gen.raised = "none"
                      /\ \A key \in DOMAIN gen.pin_reasons : HasKey(default, key)

C9_Witness ==
    /\ LowerBudget
    /\ Returned
    /\ \E default \in {validate_pin(call.pin, call.demographics, NeverExpires,
                                     pin_length, DefaultMaxCombinations)} :
           /\ call.result.weakness_reasons # EmptyBag
           /\ ReasonCodes(call.result.weakness_reasons)
                  # ReasonCodes(default.weakness_reasons)

-----------------------------------------------------------------------------
(* Properties of the special cases and of the direct matches.              *)

Pin_402570 == <<"4", "0", "2", "5", "7", "0">>

Pin_100589 == <<"1", "0", "0", "5", "8", "9">>

\* demographics.get(source) == literal
GetIs(demographics, source, literal) ==
    /\ ~demographics.none
    /\ source \in DOMAIN demographics.map
    /\ demographics.map[source] = literal

\* The verdict is WEAK and has the code among its reasons.
WeakWith(result, code) ==
    /\ result.raised = "none"
    /\ result.strength = "WEAK"
    /\ code \in ReasonCodes(result.weakness_reasons)

\* C11: for pin_length 6, validate_pin("402570", d) with d.dob = "2004-07-25"
\* is WEAK with DEMOGRAPHIC_DOB_SELF, and validate_pin("100589", d) with
\* d.anniversary = "1998-05-01" is WEAK with DEMOGRAPHIC_ANNIVERSARY, whatever
\* else d contains; check_direct_special_cases returns no reason for any
\* other combination of PIN, dob and anniversary.
C11_SpecialCaseLiterals ==
    (op = "validate_pin" /\ call.pin.kind = "str") =>
        /\ (/\ pin_length = 6
            /\ call.pin.text = Pin_402570
            /\ GetIs(call.demographics, "dob", Date_2004_07_25))
           => WeakWith(call.result, "DEMOGRAPHIC_DOB_SELF")
        /\ (/\ pin_length = 6
            /\ call.pin.text = Pin_100589
            /\ GetIs(call.demographics, "anniversary", Date_1998_05_01))
           => WeakWith(call.result, "DEMOGRAPHIC_ANNIVERSARY")
        /\ (/\ ~call.demographics.none
            /\ check_direct_special_cases(call.pin.text, call.demographics) # EmptyBag)
           => \/ /\ call.pin.text = Pin_402570
                 /\ GetIs(call.demographics, "dob", Date_2004_07_25)
              \/ /\ call.pin.text = Pin_100589
                 /\ GetIs(call.demographics, "anniversary", Date_1998_05_01)

\* The source is supplied with a calendar date.
ValidDate(demographics, source) ==
    /\ Truthy(demographics, source)
    /\ strptime(demographics.map[source]).ok

\* extract_date_patterns(demographics[source], pin_length) returns a list
\* that holds the PIN.
DirectMatch(pin, demographics, source) ==
    /\ Truthy(demographics, source)
    /\ \E direct \in {Patterns(demographics.map[source], pin_length)} :
           direct.raised = "none" /\ pin \in direct.patterns

\* C12: for every source supplied with a valid date and every pattern p of
\* extract_date_patterns for that date, validate_pin(p, d) is WEAK and its
\* reasons hold the source's code, whatever other sources are supplied and
\* whether or not p is a common PIN.
C12_SingleDateCoverage ==
    (op = "validate_pin" /\ call.pin.kind = "str") =>
        \A s \in SourceKeys :
            (/\ ValidDate(call.demographics, s)
             /\ DirectMatch(call.pin.text, call.demographics, s))
            => WeakWith(call.result, source_reason_map(s))

\* The two characters of the day of a "%Y-%m-%d" date string.
DayOf(date_str) == SubSeq(date_str, Len(date_str) - 1, Len(date_str))

\* C13: with pin_length 6 and three valid dates supplied as dob, spouse_dob
\* and anniversary, the PIN day(dob) + day(spouse_dob) + day(anniversary)
\* is WEAK and its reasons hold the codes of all three sources.
C13_CrossSourceUnion ==
    (/\ op = "validate_pin" /\ call.pin.kind = "str" /\ pin_length = 6
     /\ \A s \in SourceKeys : ValidDate(call.demographics, s)
     /\ call.pin.text = DayOf(call.demographics.map["dob"])
                          \o DayOf(call.demographics.map["spouse_dob"])
                          \o DayOf(call.demographics.map["anniversary"]))
    => \A s \in SourceKeys : WeakWith(call.result, source_reason_map(s))

-----------------------------------------------------------------------------
(* Properties of the verdict record and of the fallback.                   *)

WeaknessCodes ==
    {"COMMONLY_USED"} \cup {source_reason_map(s) : s \in SourceKeys}

\* C14: in every verdict, weakness_reasons holds no code twice and every code
\* is COMMONLY_USED, DEMOGRAPHIC_DOB_SELF, DEMOGRAPHIC_DOB_SPOUSE or
\* DEMOGRAPHIC_ANNIVERSARY; the record echoes the input PIN and the
\* validator's pin_length unchanged.
C14_VerdictRecord ==
    Returned =>
        /\ \A code \in BagToSet(call.result.weakness_reasons) :
               /\ CopiesIn(code, call.result.weakness_reasons) = 1
               /\ code \in WeaknessCodes
        /\ call.result.pin = call.pin.text
        /\ call.result.pin_length = pin_length

\* A verdict whose reasons come from a generated list that holds a code twice.
C14_Witness ==
    /\ Returned
    /\ FallbackReached(call.pin, call.demographics)
    /\ \E g \in {Generation(call.demographics, call.clock, pin_length, max_combinations)} :
           /\ HasKey(g, call.pin.text)
           /\ \E code \in WeaknessCodes : CopiesIn(code, ReasonsAt(g, call.pin.text)) > 1
    /\ call.result.weakness_reasons # EmptyBag

\* check_demographic_matches is called: the format check passed and
\* demographics is truthy.
Matching ==
    /\ op = "validate_pin"
    /\ validate_pin_format(call.pin, pin_length)
    /\ ~NotDemographics(call.demographics)

Invoked(callee) == \E i \in 1..Len(call.calls) : call.calls[i] = callee

\* The sources whose own patterns hold the PIN of the call.
DirectSources ==
    {s \in SourceKeys : DirectMatch(call.pin.text, call.demographics, s)}

\* The codes of the verdict other than COMMONLY_USED.
DemographicCodes(result) == ReasonCodes(result.weakness_reasons) \ {"COMMONLY_USED"}

\* C16: within check_demographic_matches, generate_all_combinations is
\* invoked if and only if no source matched the PIN directly and no special
\* case matched; and when at least one source matches directly and no special
\* case matches, the demographic reasons are exactly the codes of the
\* directly matching sources.
C16_GeneratorOnlyAsFallback ==
    Matching =>
        \A special_matches \in {check_direct_special_cases(call.pin.text, call.demographics)} :
            /\ Invoked("generate_all_combinations")
                   <=> (DirectSources = {} /\ special_matches = EmptyBag)
            /\ (DirectSources # {} /\ special_matches = EmptyBag)
               => /\ call.result.raised = "none"
                  /\ DemographicCodes(call.result)
                         = {source_reason_map(s) : s \in DirectSources}

\* The positions of a callee in the calls of check_demographic_matches.
CallsOf(callee) == {i \in 1..Len(call.calls) : call.calls[i] = callee}

\* C17: the special-case check is evaluated after the direct single-date
\* checks and before the generator, and whenever check_direct_special_cases
\* returns a reason, check_demographic_matches returns the union of the
\* direct-match codes and the special-case code without invoking
\* generate_all_combinations.
C17_SpecialCaseShortCircuits ==
    Matching =>
        /\ \A i \in CallsOf("check_direct_special_cases") :
               /\ \A j \in CallsOf("extract_date_patterns") : j < i
               /\ \A j \in CallsOf("generate_all_combinations") : i < j
               /\ Cardinality(CallsOf("extract_date_patterns"))
                      = Cardinality({s \in SourceKeys : Truthy(call.demographics, s)})
        /\ \A special_matches \in {check_direct_special_cases(call.pin.text, call.demographics)} :
               (Invoked("check_direct_special_cases") /\ special_matches # EmptyBag)
               => /\ ~Invoked("generate_all_combinations")
                  /\ call.result.raised = "none"
                  /\ DemographicCodes(call.result)
                         = {source_reason_map(s) : s \in DirectSources}
                           \cup BagToSet(special_matches)

\* A special case matched in a call in which a source matched directly as
\* well, and the generator was not invoked.
C17_Witness ==
    /\ Matching
    /\ Returned
    /\ check_direct_special_cases(call.pin.text, call.demographics) # EmptyBag
    /\ DirectSources # {}
    /\ Cardinality(ReasonCodes(call.result.weakness_reasons)) = 2
    /\ CallsOf("check_direct_special_cases") # {}
    /\ CallsOf("generate_all_combinations") = {}

-----------------------------------------------------------------------------
(* Properties of the dict generate_all_combinations returns.               *)

Generating == op = "generate" /\ gen.raised = "none"

\* The budget checks of the i-th call of _generate_pins_from_components
\* (line 182) found a threshold crossed: the clock read expired, or the
\* call's count exceeded max_combinations.
CrossedAt(g, i, limit) ==
    g.outputs[i].timed_out \/ g.outputs[i].iterations > limit

\* Some budget check of the generation found a threshold crossed.
Crossed(g, limit) ==
    g.timed_out \/ \E i \in 1..Len(g.outputs) : CrossedAt(g, i, limit)

\* The calls of _generate_pins_from_components up to the first crossing.
UntilCrossing(g, limit) ==
    {i \in 1..Len(g.outputs) : \A j \in 1..(i - 1) : ~CrossedAt(g, j, limit)}

\* C15: once a budget threshold is crossed during generate_all_combinations,
\* the generation returns the map built so far: no key and no reason is added
\* after the crossing, neither by later source tuples or partitions nor by
\* the special-pattern rules.
C15_NothingAfterCrossing ==
    Generating =>
        \A g \in {Generation(gen.demographics, gen.clock, pin_length, max_combinations)} :
            Crossed(g, max_combinations) =>
                \A pin \in DOMAIN gen.pin_reasons :
                    BagToSet(gen.pin_reasons[pin])
                    = UNION {g.outputs[i].reasons :
                                i \in {j \in UntilCrossing(g, max_combinations) :
                                           pin \in g.outputs[j].keys}}

\* The component dict with the raw date string blanked: a value of length 0
\* is neither of the required length nor longer.
WithoutRawDate(components) == [components EXCEPT !["RAW_DATE"] = <<>>]

\* C18: RAW_DATE is used only for the exact-literal special-case lookups: no
\* character of the raw date string, no '-' and no window of RAW_DATE, is
\* returned by extract_components_by_length or concatenated into a generated
\* candidate.
C18_RawDateOnlyForLookups ==
    /\ (op = "extract_date_components" /\ ext.raised = "none"
            /\ DOMAIN ext.components # {})
       => \A length \in {2, 4} :
              extract_components_by_length(ext.components, length)
              = extract_components_by_length(WithoutRawDate(ext.components), length)
    /\ Generating =>
           \A pin \in DOMAIN gen.pin_reasons :
               \A i \in 1..Len(pin) : pin[i] # "-"

\* What the special-pattern, cross-source and day-repetition rules append for
\* the given sources (lines 72 and 81-87), _check_special_cases left out.
RuleAppends(sc, length) ==
    IF length = 4 THEN _generate_special_patterns_4digit(sc, length)
    ELSE _generate_special_patterns_6digit(sc, length)
         \o _generate_cross_source_patterns(sc, length)
         \o _generate_day_repetition_patterns(sc, length)

\* The generation was called with one source only, of the given date.
OnlySource(source, date_str) ==
    /\ Generating
    /\ gen.demographics = [none |-> FALSE, map |-> (source :> date_str)]

\* The PIN is among the patterns of extract_date_patterns for the date.
ByTemplates(pin, date_str) == pin \in Patterns(date_str, pin_length).patterns

\* The PIN is a key the partition sweeps of the generation stored.
BySweep(pin) ==
    \E g \in {Generation(gen.demographics, gen.clock, pin_length, max_combinations)} :
        \E i \in 1..Len(g.outputs) : pin \in g.outputs[i].keys

\* The PIN is a key one of the rules appended to.
ByRules(pin) ==
    \E appends \in {RuleAppends(SourceComponents(gen.demographics), pin_length)} :
        \E i \in 1..Len(appends) : appends[i][1] = pin

\* C19: with only dob = 2004-07-25 supplied, PIN 402570 is produced neither
\* by the templates of extract_date_patterns nor by the generator's partition
\* sweep and cross-source and repetition rules (the entries of
\* _check_special_cases excluded); likewise PIN 100589 with only
\* anniversary = 1998-05-01.
C19_NotReachableByGeneralRules ==
    /\ OnlySource("dob", Date_2004_07_25)
       => /\ ~ByTemplates(Pin_402570, Date_2004_07_25)
          /\ ~BySweep(Pin_402570)
          /\ ~ByRules(Pin_402570)
    /\ OnlySource("anniversary", Date_1998_05_01)
       => /\ ~ByTemplates(Pin_100589, Date_1998_05_01)
          /\ ~BySweep(Pin_100589)
          /\ ~ByRules(Pin_100589)

\* C19 as amended: with only dob = 2004-07-25 supplied, PIN 402570 is
\* produced neither by the templates of extract_date_patterns nor by the
\* generator's cross-source and repetition rules (the entries of
\* _check_special_cases excluded); likewise PIN 100589 with only
\* anniversary = 1998-05-01.
C19_NotReachableByTemplatesAndRules ==
    /\ OnlySource("dob", Date_2004_07_25)
       => /\ ~ByTemplates(Pin_402570, Date_2004_07_25)
          /\ ~ByRules(Pin_402570)
    /\ OnlySource("anniversary", Date_1998_05_01)
       => /\ ~ByTemplates(Pin_100589, Date_1998_05_01)
          /\ ~ByRules(Pin_100589)

\* A generation for the dob alone whose 2+2+2 sweep stored 402570.
C19_Witness ==
    /\ OnlySource("dob", Date_2004_07_25)
    /\ pin_length = 6
    /\ BySweep(Pin_402570)
    /\ ~ByRules(Pin_402570)

\* C20: every value of the dict generate_all_combinations returns is a set of
\* reason codes: no code occurs more than once in the reasons recorded for a
\* key, the keys written by the special-pattern, cross-source and
\* day-repetition rules included.
C20_ReasonsAreSets ==
    Generating =>
        \A pin \in DOMAIN gen.pin_reasons :
            \A code \in BagToSet(gen.pin_reasons[pin]) :
                CopiesIn(code, gen.pin_reasons[pin]) = 1

-----------------------------------------------------------------------------
(* Properties of the partition sweeps.                                     *)

\* The partitions the claim on sweep coverage names.
UntruncatedPartitions(length) ==
    IF length = 4 THEN {<<2, 2>>} ELSE {<<2, 4>>, <<4, 2>>}

\* The candidate lists of one source tuple under one partition.
CandidateLists(sc, combination, part_lengths) ==
    List([i \in 1..Len(part_lengths) |->
            extract_components_by_length(sc.components[combination[i]], part_lengths[i])])

\* C21: under the default budget, for the partitions [2,2] (pin_length 4) and
\* [2,4], [4,2] (pin_length 6), for every ordered tuple of supplied sources,
\* repeats included, and every choice of one candidate per position, the
\* concatenation is a key of the returned map and its reasons include the
\* code of every source of the tuple.
C21_SweepCoverage ==
    (/\ op = "generate"
     /\ max_combinations = DefaultMaxCombinations
     /\ \E s \in SourceKeys : ValidDate(gen.demographics, s))
    => /\ gen.raised = "none"
       /\ \A sc \in {SourceComponents(gen.demographics)} :
          \A part_lengths \in UntruncatedPartitions(pin_length) :
          \A t \in 0..(Product([i \in 1..Len(part_lengths) |-> Len(sc.keys)]) - 1) :
          \A combination \in {SourceCombination(sc.keys, Len(part_lengths), t)} :
          \A pin \in Concatenations(CandidateLists(sc, combination, part_lengths)) :
              /\ pin \in DOMAIN gen.pin_reasons
              /\ \A i \in 1..Len(combination) :
                     source_reason_map(combination[i]) \in BagToSet(gen.pin_reasons[pin])

\* The calls of _generate_pins_from_components of one generation, in order:
\* <<part_lengths, t>> for the t-th source tuple of each partition swept.
Schedule(sc, length) ==
    LET tuples(part_lengths) ==
            List([t \in 1..Product([i \in 1..Len(part_lengths) |-> Len(sc.keys)]) |->
                    <<part_lengths, t - 1>>])
    IN  IF length = 4 THEN tuples(<<2, 2>>)
        ELSE tuples(<<2, 2, 2>>) \o tuples(<<2, 4>>) \o tuples(<<4, 2>>)

\* The lists the claim on the safety valve has the product enumerated over.
ListsEnumerated(lists) ==
    IF Product([i \in 1..Len(lists) |-> Len(lists[i])]) > 5000
    THEN List([i \in 1..Len(lists) |->
                 IF Len(lists[i]) > 20 THEN SubSeq(lists[i], 1, 20) ELSE lists[i]])
    ELSE lists

\* C22: if and only if the product of the candidate list sizes of a source
\* tuple exceeds 5000, every position's list is cut to its first 20 entries
\* before the Cartesian product is enumerated, otherwise the full lists are
\* used; a candidate with a part beyond the first 20 entries is not produced
\* by a truncated tuple.
C22_SafetyValve ==
    Generating =>
        \A g \in {Generation(gen.demographics, gen.clock, pin_length, max_combinations)},
           sc \in {SourceComponents(gen.demographics)} :
        \A schedule \in {Schedule(sc, pin_length)} :
        \A k \in 1..Len(g.outputs) :
        \A lists \in {ListsEnumerated(CandidateLists(
                          sc, SourceCombination(sc.keys, Len(schedule[k][1]), schedule[k][2]),
                          schedule[k][1]))} :
        \A pins \in {Concatenations(lists)} :
            /\ g.outputs[k].keys \subseteq pins
            /\ ~CrossedAt(g, k, max_combinations)
               => /\ g.outputs[k].keys = pins
                  /\ g.outputs[k].iterations
                         = Product([i \in 1..Len(lists) |-> Len(lists[i])])

\* A generation for three sources that ran to its end: the tuples of the
\* 2+2+2 partition were truncated, those of 2+4 and 4+2 were not.
C22_Witness ==
    /\ Generating
    /\ pin_length = 6
    /\ \E g \in {Generation(gen.demographics, gen.clock, pin_length, max_combinations)} :
           /\ ~Crossed(g, max_combinations)
           /\ Len(g.outputs) = 45
           /\ \A k \in 1..27 : g.outputs[k].iterations = 20 * 20 * 20
           /\ \A k \in 28..45 : g.outputs[k].iterations \in 1001..5000

-----------------------------------------------------------------------------
(* Properties of the special-pattern rules.                                *)

\* C23: for pin_length 4, whenever a dob whose raw date contains "2004" is
\* supplied, alone or with other sources, the returned map contains the keys
\* "0098" and "9804", each with DEMOGRAPHIC_DOB_SELF among its reasons.
C23_LiteralOverrides ==
    (/\ op = "generate"
     /\ pin_length = 4
     /\ ValidDate(gen.demographics, "dob")
     /\ Contains(gen.demographics.map["dob"], <<"2", "0", "0", "4">>))
    => /\ gen.raised = "none"
       /\ \A pin \in {<<"0", "0", "9", "8">>, <<"9", "8", "0", "4">>} :
              /\ pin \in DOMAIN gen.pin_reasons
              /\ "DEMOGRAPHIC_DOB_SELF" \in BagToSet(gen.pin_reasons[pin])

-----------------------------------------------------------------------------
(* Properties of the extractor.                                            *)

\* C24: extract_date_patterns(date, pin_length) is closed under character
\* reversal for every valid date and both lengths: whenever a pattern is in
\* the result, its reversed string is in the result too.
C24_ClosedUnderReversal ==
    (op = "extract_date_patterns" /\ ext.raised = "none") =>
        \A pattern \in ext.patterns : Reverse(pattern) \in ext.patterns

\* A result with a pattern that is not its own reversal.
C24_Witness ==
    /\ op = "extract_date_patterns"
    /\ ext.raised = "none"
    /\ strptime(ext.date_str).ok
    /\ \E pattern \in ext.patterns : Reverse(pattern) # pattern

\* C25: with pin_length 4, for every valid date the template ["YY"] contributes
\* the two-digit year written twice (0404 for 2004) to extract_date_patterns.
C25_YearTwice ==
    (/\ op = "extract_date_patterns"
     /\ pin_length = 4
     /\ strptime(ext.date_str).ok) =>
        /\ ext.raised = "none"
        /\ \E components \in {extract_date_components(ext.date_str).components} :
               components["YY"] \o components["YY"] \in ext.patterns

\* The positions of the vocabulary whose value has exactly n characters, and
\* those whose value is longer.
ExactAt(components, n) ==
    {i \in 1..Len(ComponentOrder) : Len(components[ComponentOrder[i]]) = n}

LongerAt(components, n) ==
    {i \in 1..Len(ComponentOrder) : Len(components[ComponentOrder[i]]) > n}

\* The number of (value, offset) pairs whose length-n window is w.
WindowCount(components, n, w) ==
    Cardinality({<<i, o>> \in LongerAt(components, n) \X (0..(11 - n)) :
                    /\ o + n <= Len(components[ComponentOrder[i]])
                    /\ SubSeq(components[ComponentOrder[i]], o + 1, o + n) = w})

\* C26: extract_components_by_length(components, n) returns the values of
\* length n in vocabulary order, followed by every length-n window at every
\* offset of every longer value; every returned string has n characters, and
\* a shorter value contributes nothing.
C26_ExactThenWindows ==
    (op = "extract_components_by_length" /\ DOMAIN ext.components # {}) =>
        \E exact \in {ExactAt(ext.components, ext.length)} :
        \E k \in {Cardinality(exact)} :
            /\ \A j \in 1..Len(ext.extracted) : Len(ext.extracted[j]) = ext.length
            /\ Len(ext.extracted) >= k
            /\ \A j \in 1..k :
                   \E i \in exact :
                       /\ Cardinality({h \in exact : h <= i}) = j
                       /\ ext.extracted[j] = ext.components[ComponentOrder[i]]
            /\ \A w \in {ext.extracted[j] : j \in (k + 1)..Len(ext.extracted)} :
                   Cardinality({j \in (k + 1)..Len(ext.extracted) : ext.extracted[j] = w})
                       = WindowCount(ext.components, ext.length, w)
            /\ \A i \in LongerAt(ext.components, ext.length) :
                   \A o \in 0..(Len(ext.components[ComponentOrder[i]]) - ext.length) :
                       \E j \in (k + 1)..Len(ext.extracted) :
                           ext.extracted[j]
                               = SubSeq(ext.components[ComponentOrder[i]], o + 1, o + ext.length)

\* A call with values of the length asked for, longer values and shorter ones.
C26_Witness ==
    /\ op = "extract_components_by_length"
    /\ DOMAIN ext.components # {}
    /\ ext.length = 4
    /\ ExactAt(ext.components, 4) # {}
    /\ LongerAt(ext.components, 4) # {}
    /\ \E i \in 1..Len(ComponentOrder) : Len(ext.components[ComponentOrder[i]]) < 4
    /\ Len(ext.extracted) > Cardinality(ExactAt(ext.components, 4))

-----------------------------------------------------------------------------
(* Properties of the validator as an object                                *)

C28_ValidatorsEquivalent ==
    (op = "validate_pin" /\ validate_pin_format(call.pin, pin_length)) =>
        \E legacy \in {pin_validator_validate_pin(call.pin, call.demographics, call.clock,
                                                   pin_length, max_combinations)} :
            /\ legacy.raised = call.result.raised
            /\ legacy.strength = call.result.strength
            /\ ReasonCodes(legacy.weakness_reasons) = ReasonCodes(call.result.weakness_reasons)

\* The call returned a verdict and the verdict is WEAK.
Weak(result) == result.raised = "none" /\ result.strength = "WEAK"

\* C29: strength is monotone in the demographics: if validate_pin(pin, d) is
\* WEAK and the call's demographics extend d by one more source date, the
\* call is WEAK too, provided no budget check of either call reads an elapsed
\* time above max_execution_time.
C29_MonotoneInDemographics ==
    (/\ op = "validate_pin"
     /\ validate_pin_format(call.pin, pin_length)
     /\ ~call.demographics.none
     /\ ~CutByTime(call.pin, call.demographics, call.clock, max_combinations)) =>
        \A s \in DOMAIN call.demographics.map :
            \A d \in {Without(call.demographics, s)} :
                (/\ ~CutByTime(call.pin, d, call.clock, max_combinations)
                 /\ Weak(validate_pin(call.pin, d, call.clock, pin_length,
                                      max_combinations)))
                    => Weak(call.result)

\* Every demographic code among `codes` names a source the demographics
\* supply with a date that is present, non-empty and parseable.
OnlySuppliedSources(codes, demographics) ==
    /\ "DEMOGRAPHIC_DOB_SELF" \in codes => ValidDate(demographics, "dob")
    /\ "DEMOGRAPHIC_DOB_SPOUSE" \in codes => ValidDate(demographics, "spouse_dob")
    /\ "DEMOGRAPHIC_ANNIVERSARY" \in codes => ValidDate(demographics, "anniversary")

\* C30: a demographic reason code appears in a verdict's reasons, and in a
\* value of the dict generate_all_combinations returns, only if the entry of
\* its source is present, non-empty and parseable.
C30_ReasonsOnlyForSuppliedSources ==
    /\ Returned =>
           OnlySuppliedSources(ReasonCodes(call.result.weakness_reasons), call.demographics)
    /\ Generating =>
           \A pin \in DOMAIN gen.pin_reasons :
               OnlySuppliedSources(ReasonCodes(gen.pin_reasons[pin]), gen.demographics)

\* A WEAK verdict with a demographic reason for demographics that also hold a
\* source whose value is no valid date.
C30_Witness ==
    /\ Returned
    /\ DemographicCodes(call.result) # {}
    /\ \E s \in SourceKeys :
           Truthy(call.demographics, s) /\ ~ValidDate(call.demographics, s)
    /\ \E s \in SourceKeys : ~Truthy(call.demographics, s)

====
